---------------------------- MODULE Spec2Model ----------------------------
(***************************************************************************)
(* Retrieval scoring of the evaluation harness (eval/scripts/              *)
(* score_retrieval.py): the heading-path normalizer, the gold-support      *)
(* matcher and the per-test metric engine.                                 *)
(*                                                                         *)
(* Strings the code inspects character by character (heading paths, chunk  *)
(* text, snippets) are sequences of one-character strings; rel_path, which *)
(* the code only compares for equality, is a TLA+ string.  A Python dict   *)
(* is a function whose DOMAIN is the set of keys present.  None is the     *)
(* empty tuple and an optional value v that is present is <<v>>; a float   *)
(* is a reduced fraction <<numerator, denominator>>.                       *)
(***************************************************************************)
EXTENDS Integers, Sequences, FiniteSets, TLC

VARIABLES pc, heading_path, shape, normalized,
          chunk, gold, matched,
          test_result, test_case, outcome

\* the run directory and the processes that rewrite it
VARIABLES results_jsonl, eval_set, pass, ran, original, step, metrics_json, last_written

\* the two run directories compare_runs.py reads
VARIABLES run1, run2

\* the ground-truth file, the judge cache and the calls of the judge model,
\* the options of a command and the labeling session
VARIABLES eval_set_jsonl, judge_cache, judge_calls, args, session

vars == <<pc, heading_path, shape, normalized,
          chunk, gold, matched,
          test_result, test_case, outcome,
          results_jsonl, eval_set, pass, ran, original, step, metrics_json, last_written,
          run1, run2,
          eval_set_jsonl, judge_cache, judge_calls, args, session>>

compare_vars == <<run1, run2>>

pipeline_vars == <<results_jsonl, eval_set, pass, ran, original, step, metrics_json, last_written>>

tool_vars == <<eval_set_jsonl, judge_cache, judge_calls, args, session>>

run_vars == <<results_jsonl, eval_set, pass, ran, original, step, metrics_json, last_written,
              run1, run2,
              eval_set_jsonl, judge_cache, judge_calls, args, session>>

scoring_vars == <<pc, heading_path, shape, normalized,
                  chunk, gold, matched,
                  test_result, test_case, outcome>>

---------------------------------------------------------------------------
(* Bounds of the model. *)

MaxLen == 5

MaxShapeSegs == 2

MaxHashes == 2

MaxPathLen == 3

MaxTextLen == 2

MaxSnippets == 2

MaxChunks == 2

MaxGroups == 2

---------------------------------------------------------------------------
(* Python values. *)

None == <<>>

Some(v) == <<v>>

Get(d, key, default) == IF key \in DOMAIN d THEN d[key] ELSE default

SeqsUpTo(S, n) == UNION {[1..m -> S] : m \in 0..n}

SP == " "

TAB == "\t"

Whitespace == {SP, TAB}

---------------------------------------------------------------------------
(* str methods and the regular expressions of normalize_heading_path. *)

\* number of leading whitespace characters of s
LeadWS(s) ==
  LET Stops == {i \in 1..Len(s) : s[i] \notin Whitespace}
  IN  IF Stops = {} THEN Len(s)
      ELSE (CHOOSE i \in Stops : \A j \in Stops : i <= j) - 1

\* number of trailing whitespace characters of s
TrailWS(s) ==
  LET Stops == {i \in 1..Len(s) : s[i] \notin Whitespace}
  IN  IF Stops = {} THEN Len(s)
      ELSE Len(s) - (CHOOSE i \in Stops : \A j \in Stops : i >= j)

\* s[n:]
DropFirst(s, n) == SubSeq(s, n + 1, Len(s))

\* str.strip()
Strip(s) ==
  IF LeadWS(s) = Len(s) THEN <<>>
  ELSE SubSeq(s, LeadWS(s) + 1, Len(s) - TrailWS(s))

\* re.sub(r'\s*>\s*', ' > ', s): leftmost, greedy, non-overlapping
RECURSIVE SubSeparator(_)
SubSeparator(s) ==
  IF s = <<>> THEN <<>>
  ELSE LET w == LeadWS(s)
       IN  IF w < Len(s) /\ s[w + 1] = ">"
           THEN LET rest == DropFirst(s, w + 1)
                IN  <<SP, ">", SP>> \o SubSeparator(DropFirst(rest, LeadWS(rest)))
           ELSE <<Head(s)>> \o SubSeparator(Tail(s))

\* s.startswith(p)
StartsWith(s, p) == Len(p) <= Len(s) /\ SubSeq(s, 1, Len(p)) = p

\* p in s
Contains(s, p) == \E i \in 0..(Len(s) - Len(p)) : SubSeq(s, i + 1, i + Len(p)) = p

\* str.split(sep) for a non-empty sep
RECURSIVE Split(_, _)
Split(s, sep) ==
  LET Hits == {i \in 1..(Len(s) - Len(sep) + 1) : SubSeq(s, i, i + Len(sep) - 1) = sep}
  IN  IF Hits = {} THEN <<s>>
      ELSE LET i == CHOOSE h \in Hits : \A g \in Hits : h <= g
           IN  <<SubSeq(s, 1, i - 1)>> \o Split(DropFirst(s, i + Len(sep) - 1), sep)

\* sep.join(parts)
RECURSIVE Join(_, _)
Join(parts, sep) ==
  IF parts = <<>> THEN <<>>
  ELSE IF Len(parts) = 1 THEN parts[1]
  ELSE parts[1] \o sep \o Join(Tail(parts), sep)

Separator == <<SP, ">", SP>>

\* re.sub(r'^#\s*', '', part): one marker only
StripOneMarker(part) ==
  IF part # <<>> /\ part[1] = "#"
  THEN LET rest == Tail(part) IN DropFirst(rest, LeadWS(rest))
  ELSE part

\* re.sub(r'^#+\s*', '', part)
StripHeadingMarkers(part) ==
  LET Stops == {i \in 1..Len(part) : part[i] # "#"}
      h == IF Stops = {} THEN Len(part)
           ELSE (CHOOSE i \in Stops : \A j \in Stops : i <= j) - 1
  IN  IF h = 0 THEN part
      ELSE LET rest == DropFirst(part, h) IN DropFirst(rest, LeadWS(rest))

\* re.sub(r'\s+', ' ', part)
RECURSIVE CollapseSpaces(_)
CollapseSpaces(part) ==
  IF part = <<>> THEN <<>>
  ELSE IF LeadWS(part) > 0 THEN <<SP>> \o CollapseSpaces(DropFirst(part, LeadWS(part)))
  ELSE <<Head(part)>> \o CollapseSpaces(Tail(part))

\* the body of the loop over parts: the cleaned part, or nothing when it is empty
NormalizePart(part) ==
  LET p == CollapseSpaces(StripHeadingMarkers(Strip(part)))
  IN  IF p # <<>> THEN <<Strip(p)>> ELSE <<>>

RECURSIVE NormalizeParts(_)
NormalizeParts(parts) ==
  IF parts = <<>> THEN <<>>
  ELSE NormalizePart(Head(parts)) \o NormalizeParts(Tail(parts))

normalize_heading_path(h) ==
  IF h = <<>> THEN <<>>
  ELSE Strip(Join(NormalizeParts(Split(SubSeparator(Strip(h)), Separator)), Separator))

---------------------------------------------------------------------------
(* The gold-support matcher. *)

LowerChar(c) == CASE c = "X" -> "x" [] c = "Y" -> "y" [] OTHER -> c

\* str.lower() that leaves the text as it is
LowerUnchanged(s) == s

\* str.lower()
Lower(s) == [i \in 1..Len(s) |-> LowerChar(s[i])]

\* the matcher with the prefix test turned round
matches_gold_support_reversed(chunk_rel_path, chunk_heading_path, chunk_text, gold_rel_path, gold_heading_path, gold_snippets) ==
  LET chunk_heading == normalize_heading_path(chunk_heading_path)
      gold_heading == normalize_heading_path(gold_heading_path)
  IN  IF chunk_rel_path # gold_rel_path THEN FALSE
      ELSE IF ~StartsWith(gold_heading, chunk_heading) THEN FALSE
      ELSE IF gold_snippets # <<>>
           THEN \E i \in 1..Len(gold_snippets) :
                   Contains(Lower(chunk_text), Lower(gold_snippets[i]))
           ELSE TRUE

matches_gold_support(chunk_rel_path, chunk_heading_path, chunk_text, gold_rel_path, gold_heading_path, gold_snippets) ==
  LET chunk_heading == normalize_heading_path(chunk_heading_path)
      gold_heading == normalize_heading_path(gold_heading_path)
  IN  IF chunk_rel_path # gold_rel_path THEN FALSE
      ELSE IF ~StartsWith(chunk_heading, gold_heading) THEN FALSE
      ELSE IF gold_snippets # <<>>
           THEN \E i \in 1..Len(gold_snippets) :
                   Contains(Lower(chunk_text), Lower(gold_snippets[i]))
           ELSE TRUE

\* one chunk (or reference) against one gold support, as every metric does it:
\* the fields are read with dict.get and handed to the matcher
MatchesSupport(c, g) ==
  matches_gold_support(Get(c, "rel_path", ""), Get(c, "heading_path", <<>>),
                       Get(c, "text", <<>>),
                       Get(g, "rel_path", ""), Get(g, "heading_path", <<>>),
                       Get(g, "snippets", None))

---------------------------------------------------------------------------
(* The metric engine.  A function that can raise returns Ok(value) or      *)
(* Raise(exception).                                                       *)

Ok(v) == [exc |-> "", ret |-> v]

Raise(e) == [exc |-> e, ret |-> None]

Abs(x) == IF x < 0 THEN -x ELSE x

RECURSIVE GCD(_, _)
GCD(a, b) == IF b = 0 THEN a ELSE GCD(b, a % b)

\* the float n / d, d # 0
Frac(n, d) ==
  LET g == GCD(Abs(n), Abs(d))
      sign == IF d < 0 THEN -1 ELSE 1
  IN  <<(sign * n) \div g, (sign * d) \div g>>

Zero == Frac(0, 1)

One == Frac(1, 1)

EmptyDict == <<>>

DefaultK == 5

\* xs[:k]
Slice(xs, k) ==
  IF k >= 0 THEN SubSeq(xs, 1, IF k < Len(xs) THEN k ELSE Len(xs))
  ELSE SubSeq(xs, 1, IF Len(xs) + k > 0 THEN Len(xs) + k ELSE 0)

\* the loop over gold_supports that every metric runs for one chunk
MatchesAny(c, gold_supports) ==
  \E j \in 1..Len(gold_supports) : MatchesSupport(c, gold_supports[j])

compute_recall_at_k(retrieved_chunks, gold_supports, k) ==
  LET top_k_chunks == Slice(retrieved_chunks, k)
      Hits == {i \in 1..Len(top_k_chunks) : MatchesAny(top_k_chunks[i], gold_supports)}
  IN  IF Hits = {} THEN <<Zero, None>>
      ELSE LET i == CHOOSE h \in Hits : \A g \in Hits : h <= g
           IN  <<One, Some(Get(top_k_chunks[i], "rank", 0))>>

\* the loop over the indices of one group: "satisfied", "unsatisfied", or the
\* IndexError of gold_supports[support_idx]
RECURSIVE GroupVerdict(_, _, _)
GroupVerdict(group, gold_supports, top_k_chunks) ==
  IF group = <<>> THEN "satisfied"
  ELSE LET support_idx == Head(group)
           n == Len(gold_supports)
       IN  IF support_idx >= n THEN "unsatisfied"
           ELSE IF support_idx < -n THEN "IndexError"
           ELSE LET gold_support ==
                      gold_supports[(IF support_idx < 0 THEN support_idx + n
                                     ELSE support_idx) + 1]
                    support_matched ==
                      \E i \in 1..Len(top_k_chunks) :
                         MatchesSupport(top_k_chunks[i], gold_support)
                IN  IF ~support_matched THEN "unsatisfied"
                    ELSE GroupVerdict(Tail(group), gold_supports, top_k_chunks)

\* the loop over the groups
RECURSIVE ScanGroups(_, _, _)
ScanGroups(groups, gold_supports, top_k_chunks) ==
  IF groups = <<>> THEN Ok(Zero)
  ELSE LET verdict == GroupVerdict(Head(groups), gold_supports, top_k_chunks)
       IN  IF verdict = "satisfied" THEN Ok(One)
           ELSE IF verdict = "IndexError" THEN Raise("IndexError")
           ELSE ScanGroups(Tail(groups), gold_supports, top_k_chunks)

compute_recall_all_at_k(retrieved_chunks, gold_supports, required_support_groups, k) ==
  IF required_support_groups = <<>>
  THEN Ok(compute_recall_at_k(retrieved_chunks, gold_supports, k)[1])
  ELSE ScanGroups(required_support_groups, gold_supports, Slice(retrieved_chunks, k))

\* 1 / (position of the first matching chunk) instead of 1 / its rank
compute_mrr_by_position(retrieved_chunks, gold_supports, k) ==
  LET top_k_chunks == Slice(retrieved_chunks, k)
      Hits == {i \in 1..Len(top_k_chunks) : MatchesAny(top_k_chunks[i], gold_supports)}
  IN  IF Hits = {} THEN Ok(Zero)
      ELSE Ok(Frac(1, CHOOSE h \in Hits : \A g \in Hits : h <= g))

compute_mrr(retrieved_chunks, gold_supports, k) ==
  LET first_match_rank == compute_recall_at_k(retrieved_chunks, gold_supports, k)[2]
  IN  IF first_match_rank = None THEN Ok(Zero)
      ELSE IF first_match_rank[1] = 0 THEN Raise("ZeroDivisionError")
      ELSE Ok(Frac(1, first_match_rank[1]))

\* matching_count / len(top_k_chunks): the chunks present, not k
compute_precision_over_retrieved(retrieved_chunks, gold_supports, k) ==
  IF k = 0 THEN Zero
  ELSE LET top_k_chunks == Slice(retrieved_chunks, k)
           matching_count ==
             Cardinality({i \in 1..Len(top_k_chunks) :
                            MatchesAny(top_k_chunks[i], gold_supports)})
       IN  IF top_k_chunks = <<>> THEN Zero ELSE Frac(matching_count, Len(top_k_chunks))

compute_precision_at_k(retrieved_chunks, gold_supports, k) ==
  IF k = 0 THEN Zero
  ELSE LET top_k_chunks == Slice(retrieved_chunks, k)
           matching_count ==
             Cardinality({i \in 1..Len(top_k_chunks) :
                            MatchesAny(top_k_chunks[i], gold_supports)})
       IN  Frac(matching_count, k)

\* the recall of the first chunk only, not of the whole list
compute_scope_miss_first_chunk(retrieved_chunks, gold_supports, folder_mode, folder_selection_info) ==
  IF folder_mode \notin {"on", "on_with_fallback"} THEN FALSE
  ELSE IF gold_supports = <<>> THEN FALSE
  ELSE IF compute_recall_at_k(retrieved_chunks, gold_supports, 1)[1] # Zero THEN FALSE
  ELSE TRUE

compute_scope_miss(retrieved_chunks, gold_supports, folder_mode, folder_selection_info) ==
  IF folder_mode \notin {"on", "on_with_fallback"} THEN FALSE
  ELSE IF gold_supports = <<>> THEN FALSE
  ELSE IF compute_recall_at_k(retrieved_chunks, gold_supports, Len(retrieved_chunks))[1] # Zero
       THEN FALSE
  ELSE TRUE

\* the reference's own text handed to the matcher, not ""
compute_attribution_hit_with_text(references, gold_supports, answerable) ==
  IF ~answerable THEN FALSE
  ELSE IF references = <<>> THEN FALSE
  ELSE \E i \in 1..Len(references), j \in 1..Len(gold_supports) :
          MatchesSupport(references[i], gold_supports[j])

compute_attribution_hit(references, gold_supports, answerable) ==
  IF ~answerable THEN FALSE
  ELSE IF references = <<>> THEN FALSE
  ELSE \E i \in 1..Len(references), j \in 1..Len(gold_supports) :
          matches_gold_support(Get(references[i], "rel_path", ""),
                               Get(references[i], "heading_path", <<>>),
                               <<>>,
                               Get(gold_supports[j], "rel_path", ""),
                               Get(gold_supports[j], "heading_path", <<>>),
                               Get(gold_supports[j], "snippets", None))

compute_retrieval_metrics_for_test(tr, tc) ==
  LET retrieved_chunks == Get(tr, "retrieved_chunks", <<>>)
      references == Get(tr, "references", <<>>)
      config == Get(tr, "config", EmptyDict)
      k == Get(config, "k", DefaultK)
      folder_mode == Get(config, "folder_mode", "off")
      gold_supports == Get(tc, "gold_supports", <<>>)
      answerable == Get(tc, "answerable", TRUE)
      required_support_groups == Get(tc, "required_support_groups", None)
      category == Get(tc, "category", "")
      recall_all_at_k ==
        IF category = "multi_hop" /\ required_support_groups # <<>>
        THEN compute_recall_all_at_k(retrieved_chunks, gold_supports,
                                     required_support_groups, k)
        ELSE Ok(None)
      mrr == compute_mrr(retrieved_chunks, gold_supports, k)
  IN  IF recall_all_at_k.exc # "" THEN recall_all_at_k
      ELSE IF mrr.exc # "" THEN mrr
      ELSE Ok([recall_at_k |-> compute_recall_at_k(retrieved_chunks, gold_supports, k)[1],
               recall_all_at_k |-> recall_all_at_k.ret,
               mrr |-> mrr.ret,
               precision_at_k |-> compute_precision_at_k(retrieved_chunks, gold_supports, k),
               scope_miss |-> compute_scope_miss(retrieved_chunks, gold_supports,
                                                 folder_mode, None),
               attribution_hit |-> compute_attribution_hit(references, gold_supports,
                                                           answerable)])

---------------------------------------------------------------------------
(* Inputs of the normalizer. *)

HeadingChars == {"#", ">", SP, TAB, "a"}

\* a heading path written segment by segment: the words of each segment and
\* the number of '#' before it, and the whitespace used between the pieces
Texts == {<<>>, <<"a">>, <<"b">>, <<"a", "b">>}

Segments == [text : Texts, hashes : 0..MaxHashes]

Gaps == {<<>>, <<SP>>}

InnerGaps == {<<SP>>, <<SP, TAB>>}

SepGaps == {<<>>, <<SP>>, <<TAB, SP>>}

Shapes ==
  [segments : UNION {[1..n -> Segments] : n \in 1..MaxShapeSegs},
   after_hashes : Gaps,
   inner : InnerGaps,
   before_sep : SepGaps,
   after_sep : Gaps]

Hashes(n) == [i \in 1..n |-> "#"]

RECURSIVE RenderWords(_, _)
RenderWords(text, gap) ==
  IF text = <<>> THEN <<>>
  ELSE IF Len(text) = 1 THEN <<text[1]>>
  ELSE <<text[1]>> \o gap \o RenderWords(Tail(text), gap)

RenderSegment(seg, sh) ==
  Hashes(seg.hashes) \o sh.after_hashes \o RenderWords(seg.text, sh.inner)

RECURSIVE RenderSegments(_, _)
RenderSegments(segs, sh) ==
  IF Len(segs) = 1 THEN RenderSegment(segs[1], sh)
  ELSE RenderSegment(segs[1], sh) \o sh.before_sep \o <<">">> \o sh.after_sep
         \o RenderSegments(Tail(segs), sh)

Render(sh) == RenderSegments(sh.segments, sh)

\* the segment texts, one space between words, empty segments left out,
\* " > " between segments
RECURSIVE CanonTexts(_)
CanonTexts(segs) ==
  IF segs = <<>> THEN <<>>
  ELSE (IF Head(segs).text = <<>> THEN <<>> ELSE <<RenderWords(Head(segs).text, <<SP>>)>>)
         \o CanonTexts(Tail(segs))

Canon(sh) == Join(CanonTexts(sh.segments), Separator)

---------------------------------------------------------------------------
(* Values of the variables a specification does not use. *)

NoChunk == [rel_path |-> ""]

NoGold == [rel_path |-> ""]

NoRecord == [id |-> ""]

NoOutcome == [exc |-> "", op |-> "", ret |-> None]

IdleMatcher == chunk = NoChunk /\ gold = NoGold /\ matched = None

IdleEngine == test_result = NoRecord /\ test_case = NoRecord /\ outcome = NoOutcome

IdleNormalizer == heading_path = <<>> /\ shape = None /\ normalized = None

\* no pass has been started
NoPass == [name |-> "", pc |-> "idle", results |-> <<>>, updated_results |-> <<>>, written |-> 0]

\* no run directory has been read
NoRun == [config |-> <<>>, metrics |-> <<>>, results |-> <<>>]

IdleCompare == run1 = NoRun /\ run2 = NoRun

\* no command has been given, no judge has been asked, nothing is labelled
NoArgs == [command |-> ""]

NoSession == [pc |-> "idle"]

IdleTools ==
  /\ eval_set_jsonl = <<>>
  /\ judge_cache = <<>>
  /\ judge_calls = <<>>
  /\ args = NoArgs
  /\ session = NoSession

IdleRun ==
  /\ IdleCompare
  /\ IdleTools
  /\ results_jsonl = <<>>
  /\ eval_set = <<>>
  /\ pass = NoPass
  /\ ran = {}
  /\ original = <<>>
  /\ step = ""
  /\ metrics_json = None
  /\ last_written = ""

IdleScoring == pc = "run" /\ IdleNormalizer /\ IdleMatcher /\ IdleEngine

---------------------------------------------------------------------------
(* The normalizer applied to a heading path, and again to its own result. *)

Normalize ==
  /\ pc = "start"
  /\ normalized = None
  /\ normalized' = Some(normalize_heading_path(heading_path))
  /\ pc' = "normalized"
  /\ UNCHANGED <<heading_path, shape, chunk, gold, matched, test_result, test_case, outcome, run_vars>>

Renormalize ==
  /\ pc = "normalized"
  /\ heading_path' = normalized[1]
  /\ normalized' = Some(normalize_heading_path(normalized[1]))
  /\ pc' = "renormalized"
  /\ UNCHANGED <<shape, chunk, gold, matched, test_result, test_case, outcome, run_vars>>

NextNorm == Normalize \/ Renormalize

InitNorm ==
  /\ pc = "start"
  /\ heading_path \in SeqsUpTo(HeadingChars, MaxLen)
  /\ shape = None
  /\ normalized = None
  /\ IdleMatcher
  /\ IdleEngine
  /\ IdleRun

SpecNorm == InitNorm /\ [][NextNorm]_vars

InitShape ==
  /\ pc = "start"
  /\ shape \in {Some(sh) : sh \in Shapes}
  /\ heading_path = Render(shape[1])
  /\ normalized = None
  /\ IdleMatcher
  /\ IdleEngine
  /\ IdleRun

SpecShape == InitShape /\ [][NextNorm]_vars

---------------------------------------------------------------------------
(* The matcher applied to one chunk and one gold support. *)

\* a dict with the given optional keys present or not
PathChars == {"a", "b", ">", SP}

TextChars == {"x", "X", "y"}

SnippetTexts == {<<>>, <<"x">>, <<"Y">>, <<"x", "Y">>}

Match ==
  /\ pc = "start"
  /\ chunk # NoChunk
  /\ matched' = Some(MatchesSupport(chunk, gold))
  /\ pc' = "matched"
  /\ UNCHANGED <<heading_path, shape, normalized, chunk, gold, test_result, test_case, outcome, run_vars>>

NextMatch == Match

\* every pair of heading paths, on the same or another rel_path, no snippets
InitMatch ==
  /\ pc = "start"
  /\ \E rp \in {"a.md", "A.md"}, hp \in SeqsUpTo(PathChars, MaxPathLen) :
        chunk = [rel_path |-> rp, heading_path |-> hp, rank |-> 1]
  /\ \E hp \in SeqsUpTo(PathChars, MaxPathLen) :
        gold \in {[rel_path |-> "a.md", heading_path |-> hp],
                  [rel_path |-> "a.md", heading_path |-> hp, snippets |-> <<>>]}
  /\ matched = None
  /\ IdleNormalizer
  /\ IdleEngine
  /\ IdleRun

SpecMatch == InitMatch /\ [][NextMatch]_vars

\* a few heading paths, every chunk text and every list of snippets
InitSnippet ==
  /\ pc = "start"
  /\ \E rp \in {"a.md", "A.md"}, hp \in {<<"a", ">", "b">>, <<"b">>} :
        chunk \in {[rel_path |-> rp, heading_path |-> hp, rank |-> 1]}
                 \cup {[rel_path |-> rp, heading_path |-> hp, rank |-> 1, text |-> t] :
                         t \in SeqsUpTo(TextChars, MaxTextLen)}
  /\ \E hp \in {<<>>, <<"a">>} :
        gold \in {[rel_path |-> "a.md", heading_path |-> hp]}
                \cup {[rel_path |-> "a.md", heading_path |-> hp, snippets |-> sn] :
                        sn \in SeqsUpTo(SnippetTexts, MaxSnippets)}
  /\ matched = None
  /\ IdleNormalizer
  /\ IdleEngine
  /\ IdleRun

SpecSnippet == InitSnippet /\ [][NextMatch]_vars

---------------------------------------------------------------------------
(* The metric engine applied to one test result and its test case: the     *)
(* whole of compute_retrieval_metrics_for_test, or one of the two recall   *)
(* functions called with the same arguments.                               *)

Chunks == Get(test_result, "retrieved_chunks", <<>>)

Golds == Get(test_case, "gold_supports", <<>>)

K == Get(Get(test_result, "config", EmptyDict), "k", DefaultK)

Groups == Get(test_case, "required_support_groups", None)

Finish(op, res) ==
  /\ outcome' = [op |-> op, exc |-> res.exc, ret |-> res.ret]
  /\ pc' = "done"
  /\ UNCHANGED <<heading_path, shape, normalized, chunk, gold, matched, test_result, test_case, run_vars>>

RecallAtK ==
  /\ pc = "start"
  /\ test_result # NoRecord
  /\ Finish("compute_recall_at_k", Ok(compute_recall_at_k(Chunks, Golds, K)))

RecallAllAtK ==
  /\ pc = "start"
  /\ test_result # NoRecord
  /\ Finish("compute_recall_all_at_k", compute_recall_all_at_k(Chunks, Golds, Groups, K))

MetricsForTest ==
  /\ pc = "start"
  /\ test_result # NoRecord
  /\ Finish("compute_retrieval_metrics_for_test",
            compute_retrieval_metrics_for_test(test_result, test_case))

References == Get(test_result, "references", <<>>)

FolderMode == Get(Get(test_result, "config", EmptyDict), "folder_mode", "off")

Answerable == Get(test_case, "answerable", TRUE)

PrecisionAtK ==
  /\ pc = "start"
  /\ test_result # NoRecord
  /\ Finish("compute_precision_at_k", Ok(compute_precision_at_k(Chunks, Golds, K)))

ScopeMiss ==
  /\ pc = "start"
  /\ test_result # NoRecord
  /\ Finish("compute_scope_miss", Ok(compute_scope_miss(Chunks, Golds, FolderMode, None)))

AttributionHit ==
  /\ pc = "start"
  /\ test_result # NoRecord
  /\ Finish("compute_attribution_hit",
            Ok(compute_attribution_hit(References, Golds, Answerable)))

NextEngine ==
  \/ RecallAtK
  \/ RecallAllAtK
  \/ MetricsForTest
  \/ PrecisionAtK
  \/ ScopeMiss
  \/ AttributionHit

\* the records with the required fields in base and any one of the optional
\* ones in options, or none
WithOption(base, key, values) == {base} \cup {base @@ (key :> v) : v \in values}

GoldA == [rel_path |-> "a.md"]

GoldB == [rel_path |-> "b.md", heading_path |-> <<>>, snippets |-> <<>>]

GoldC == [rel_path |-> "c.md", heading_path |-> <<>>, snippets |-> <<>>]

GoldASnippet == [rel_path |-> "a.md", heading_path |-> <<"a">>, snippets |-> <<(<<"x">>)>>]

Ranks == 1..(MaxChunks + 1)

\* chunks whose rank is whatever the service sent, or missing
RankChunks ==
  UNION {WithOption([rel_path |-> rp], "rank", Ranks) : rp \in {"a.md", "b.md"}}
    \cup {[rel_path |-> "a.md", heading_path |-> <<"a", ">", "b">>, text |-> <<"X">>,
           rank |-> 1]}

InitRecall ==
  /\ pc = "start"
  /\ \E cs \in SeqsUpTo(RankChunks, MaxChunks) :
        test_result \in
          UNION {WithOption(tr, "references", {<<[rel_path |-> "a.md"]>>}) :
                 tr \in WithOption([test_case_id |-> "t1", retrieved_chunks |-> cs],
                                   "config", {[k |-> kk] : kk \in 0..(MaxChunks + 1)})}
  /\ test_case \in WithOption([id |-> "t1"], "gold_supports",
                               {<<GoldA>>, <<GoldASnippet, GoldB>>})
  /\ outcome = NoOutcome
  /\ IdleNormalizer
  /\ IdleMatcher
  /\ IdleRun

SpecRecall == InitRecall /\ [][NextEngine]_vars

\* chunks ranked 1, 2, ... in list order
Ranked(paths) ==
  [i \in 1..Len(paths) |->
     [rel_path |-> paths[i], heading_path |-> <<>>, text |-> <<>>, rank |-> i]]

GroupPool == {<<>>, <<0>>, <<1, 2>>, <<-1>>, <<3>>, <<0, -1>>}

InitGroups ==
  /\ pc = "start"
  /\ \E paths \in SeqsUpTo({"a.md", "b.md", "c.md"}, MaxChunks), kk \in {1, MaxChunks} :
        test_result = [test_case_id |-> "t1",
                       retrieved_chunks |-> Ranked(paths),
                       references |-> <<[rel_path |-> "a.md"]>>,
                       config |-> [k |-> kk, folder_mode |-> "on"]]
  /\ \E gs \in {<<>>, <<GoldA>>, <<GoldA, GoldB, GoldC>>} :
        test_case \in WithOption([id |-> "t1", category |-> "multi_hop", gold_supports |-> gs],
                                 "required_support_groups", SeqsUpTo(GroupPool, MaxGroups))
  /\ outcome = NoOutcome
  /\ IdleNormalizer
  /\ IdleMatcher
  /\ IdleRun

SpecGroups == InitGroups /\ [][NextEngine]_vars

---------------------------------------------------------------------------
(* score_abstention.py: the abstention metrics of one test. *)

\* abstention inferred from the answer alone, a stored record ignored
compute_abstention_from_answer(test_result_, test_case_) ==
  IF Get(test_case_, "answerable", TRUE) THEN None
  ELSE LET answer == Get(test_result_, "answer", <<>>)
       IN  IF answer = <<>> \/ Strip(answer) = <<>>
             THEN Some([abstained |-> TRUE, hallucinated |-> FALSE])
             ELSE Some([abstained |-> FALSE, hallucinated |-> TRUE])

\* None for an answerable test case, else an AbstentionResult
compute_abstention_metrics_for_test(test_result_, test_case_) ==
  IF Get(test_case_, "answerable", TRUE) THEN None
  ELSE LET abstention_data == Get(test_result_, "abstention", EmptyDict)
           answer == Get(test_result_, "answer", <<>>)
       IN  IF DOMAIN abstention_data # {}
             THEN LET abstained == Get(abstention_data, "abstained", FALSE)
                  IN  Some([abstained |-> abstained, hallucinated |-> ~abstained])
             ELSE IF answer = <<>> \/ Strip(answer) = <<>>
                    THEN Some([abstained |-> TRUE, hallucinated |-> FALSE])
                    ELSE Some([abstained |-> FALSE, hallucinated |-> TRUE])

AbstentionForTest ==
  /\ pc = "start"
  /\ test_result # NoRecord
  /\ Finish("compute_abstention_metrics_for_test",
            Ok(compute_abstention_metrics_for_test(test_result, test_case)))

NextAbstention == AbstentionForTest

Answers == SeqsUpTo({SP, TAB, "a"}, MaxTextLen)

AbstentionRecords == [abstained : BOOLEAN, hallucinated : BOOLEAN]

\* answers empty, blank and not; a stored abstention record or none; test
\* cases answerable, not, and silent about it
InitAbstention ==
  /\ pc = "start"
  /\ test_result \in
        UNION {WithOption(tr, "abstention", AbstentionRecords) :
               tr \in WithOption([test_case_id |-> "t1"], "answer", Answers)}
  /\ test_case \in WithOption([id |-> "t1"], "answerable", {TRUE, FALSE})
  /\ outcome = NoOutcome
  /\ IdleNormalizer
  /\ IdleMatcher
  /\ IdleRun

SpecAbstention == InitAbstention /\ [][NextAbstention]_vars

\* a gold support whose only snippet is the empty string
GoldAEmptySnippet == [rel_path |-> "a.md", snippets |-> <<(<<>>)>>]

\* chunks ranked 1, 2, ... that carry a heading path and a text
RankedWithText(paths) ==
  [i \in 1..Len(paths) |->
     [rel_path |-> paths[i], heading_path |-> <<"a">>, text |-> <<"x">>, rank |-> i]]

ReferenceLists ==
  {<<>>, <<[rel_path |-> "a.md"]>>, <<[rel_path |-> "b.md"]>>,
   <<[rel_path |-> "b.md"],
     [rel_path |-> "a.md", heading_path |-> <<"a", ">", "b">>, text |-> <<"x">>]>>}

Configs ==
  {EmptyDict}
    \cup {[k |-> kk] : kk \in 0..MaxChunks}
    \cup {[folder_mode |-> fm] : fm \in {"off", "on", "on_with_fallback"}}
    \cup {[k |-> kk, folder_mode |-> fm] :
            kk \in 0..MaxChunks, fm \in {"off", "on", "on_with_fallback"}}

\* every k and folder_mode, cited references, answerable or not, gold supports
\* with and without snippets
InitScoring ==
  /\ pc = "start"
  /\ \E paths \in SeqsUpTo({"a.md", "b.md"}, MaxChunks) :
        test_result \in
          UNION {WithOption(tr, "references", ReferenceLists) :
                 tr \in WithOption([test_case_id |-> "t1",
                                    retrieved_chunks |-> RankedWithText(paths)],
                                   "config", Configs)}
  /\ test_case \in
        UNION {WithOption(tc, "answerable", {TRUE, FALSE}) :
               tc \in WithOption([id |-> "t1"], "gold_supports",
                                 {<<>>, <<GoldA>>, <<GoldASnippet>>, <<GoldAEmptySnippet>>,
                                  <<GoldB, GoldA, GoldASnippet>>})}
  /\ outcome = NoOutcome
  /\ IdleNormalizer
  /\ IdleMatcher
  /\ IdleRun

SpecScoring == InitScoring /\ [][NextEngine]_vars

---------------------------------------------------------------------------
(* results.jsonl and the passes that rewrite it: update_results_with_metrics, *)
(* update_results_with_abstention and update_results_with_judges.             *)

MaxResults == 2

\* a line of results.jsonl: blank, or the text of one record, which is
\* either the text json.dumps gives for the record or another spelling of
\* it; a record is its keys and their values, the order of the keys apart
BlankLine == [blank |-> TRUE]

Line(rec, canonical) == [blank |-> FALSE, rec |-> rec, canonical |-> canonical]

\* json.dumps(result, ensure_ascii=False) + "\n"
dumps(result) == Line(result, TRUE)

\* the records of the non-blank lines, in order
load_results(file) ==
  LET lines == SelectSeq(file, LAMBDA l : ~l.blank)
  IN  [i \in 1..Len(lines) |-> lines[i].rec]

\* result[key] = value
SetItem(d, key, value) == [x \in DOMAIN d \cup {key} |-> IF x = key THEN value ELSE d[x]]

\* RetrievalMetrics.to_dict: the fields that are not None
to_dict(metrics) ==
  [f \in {x \in DOMAIN metrics : x # "recall_all_at_k" \/ metrics[x] # None} |-> metrics[f]]

\* open(output_file, "a"): the old content stays
OpenForAppending(file) == file

\* open(output_file, "w"): the file is emptied
OpenForWriting(file) == <<>>

\* the result is left out of the output
DropUnscored(result) == <<>>

\* a result whose test case is unknown: updated_results.append(result)
KeepUnscored(result) == <<result>>

\* what the judges say of one result: None when judging raised, else scores
High == Frac(9, 2)

Low == Frac(2, 1)

JudgeVerdicts ==
  {None, Some([groundedness |-> High, correctness |-> Low])}

\* one result through the loop body of update_results_with_judges
judge_result(result, verdict) ==
  IF Get(result, "answer", <<>>) = <<>> THEN result
  ELSE IF Get(result, "retrieved_chunks", <<>>) = <<>> THEN result
  ELSE IF verdict = None THEN result
  ELSE LET judged == SetItem(SetItem(result, "groundedness",
                                     [score |-> verdict[1].groundedness]),
                             "correctness", [score |-> verdict[1].correctness])
       IN  SetItem(SetItem(judged, "judge_input",
                           [answer |-> result.answer]),
                   "cost", [judge_tokens |-> 0])

\* result["retrieval_metrics"] = retrieval_metrics.to_dict(), unless computing
\* the metrics raised
with_retrieval_metrics(result, retrieval_metrics) ==
  IF retrieval_metrics.exc # "" THEN Raise(retrieval_metrics.exc)
  ELSE Ok(<<SetItem(result, "retrieval_metrics", to_dict(retrieval_metrics.ret))>>)

\* if abstention: result["abstention"] = abstention.to_dict()
with_abstention(result, abstention) ==
  Ok(<<IF abstention # None THEN SetItem(result, "abstention", abstention[1]) ELSE result>>)

\* the loop body of a pass for one result: Ok of what it appends to
\* updated_results, or the exception that ends the pass
score_result(name, result, test_cases, verdict) ==
  IF name = "judge"
    THEN Ok(<<judge_result(result, verdict)>>)
  ELSE IF Get(result, "test_case_id", "") \notin DOMAIN test_cases
    THEN Ok(KeepUnscored(result))
  ELSE IF name = "retrieval"
    THEN with_retrieval_metrics(
           result,
           compute_retrieval_metrics_for_test(result, test_cases[result.test_case_id]))
  ELSE with_abstention(
         result,
         compute_abstention_metrics_for_test(result, test_cases[result.test_case_id]))

\* what the loop leaves: Ok(updated_results), or the exception of the first
\* result that raises
collect(scored) ==
  LET raising == {i \in 1..Len(scored) : scored[i].exc # ""}
      appended == SelectSeq(scored, LAMBDA one : one.ret # <<>>)
  IN  IF raising # {}
        THEN Raise(scored[CHOOSE i \in raising : \A j \in raising : i <= j].exc)
        ELSE Ok([j \in 1..Len(appended) |-> appended[j].ret[1]])

\* the loop of a pass over the results, in order
updated_results_of(name, results, test_cases, verdicts) ==
  collect([i \in 1..Len(results) |->
             score_result(name, results[i], test_cases, verdicts[i])])

NoVerdicts(results) == [i \in 1..Len(results) |-> None]

PassNames == {"retrieval", "abstention", "judge"}

\* the pass once the results are loaded and the loop has run: it returns
\* when there are no results, ends with the loop's exception, or goes on to
\* write
loaded(name, results, updated) ==
  IF results = <<>> THEN [NoPass EXCEPT !.name = name, !.pc = "empty"]
  ELSE IF updated.exc # ""
    THEN [NoPass EXCEPT !.name = name, !.pc = "failed", !.results = results]
  ELSE [name |-> name, pc |-> "computed", results |-> results,
        updated_results |-> updated.ret, written |-> 0]

\* a pass starts: it loads the eval set and the results and computes the
\* updated results
StartPass(name) ==
  /\ step = "manual"
  /\ pass.pc \in {"idle", "done", "empty", "failed"}
  /\ \E verdicts \in [1..Len(load_results(results_jsonl)) ->
                        IF name = "judge" THEN JudgeVerdicts ELSE {None}] :
        pass' = loaded(name, load_results(results_jsonl),
                       updated_results_of(name, load_results(results_jsonl),
                                          eval_set, verdicts))
  /\ ran' = IF pass'.pc = "computed" THEN ran ELSE ran \cup {name}
  /\ UNCHANGED <<results_jsonl, eval_set, original, step, metrics_json, last_written>>
  /\ UNCHANGED scoring_vars
  /\ UNCHANGED compare_vars
  /\ UNCHANGED tool_vars

\* with open(output_file, "w", encoding="utf-8") as f:
OpenOutput ==
  /\ pass.pc = "computed"
  /\ results_jsonl' = OpenForWriting(results_jsonl)
  /\ pass' = [pass EXCEPT !.pc = "writing"]
  /\ last_written' = "results.jsonl"
  /\ UNCHANGED <<eval_set, ran, original, step, metrics_json>>
  /\ UNCHANGED scoring_vars
  /\ UNCHANGED compare_vars
  /\ UNCHANGED tool_vars

\* f.write(json.dumps(result, ensure_ascii=False) + "\n")
WriteLine ==
  /\ pass.pc = "writing"
  /\ pass.written < Len(pass.updated_results)
  /\ results_jsonl' = Append(results_jsonl, dumps(pass.updated_results[pass.written + 1]))
  /\ pass' = [pass EXCEPT !.written = pass.written + 1]
  /\ UNCHANGED <<eval_set, ran, original, step, metrics_json, last_written>>
  /\ UNCHANGED scoring_vars
  /\ UNCHANGED compare_vars
  /\ UNCHANGED tool_vars

\* the with block ends and the pass returns
CloseOutput ==
  /\ pass.pc = "writing"
  /\ pass.written = Len(pass.updated_results)
  /\ pass' = [pass EXCEPT !.pc = "done"]
  /\ ran' = ran \cup {pass.name}
  /\ UNCHANGED <<results_jsonl, eval_set, original, step, metrics_json, last_written>>
  /\ UNCHANGED scoring_vars
  /\ UNCHANGED compare_vars
  /\ UNCHANGED tool_vars

\* the process is killed between two of its steps
Interrupt ==
  /\ pass.pc \in {"computed", "writing"}
  /\ pass' = [pass EXCEPT !.pc = "interrupted"]
  /\ UNCHANGED <<results_jsonl, eval_set, ran, original, step, metrics_json, last_written>>
  /\ UNCHANGED scoring_vars
  /\ UNCHANGED compare_vars
  /\ UNCHANGED tool_vars

NextPasses ==
  \/ \E name \in PassNames : StartPass(name)
  \/ OpenOutput
  \/ WriteLine
  \/ CloseOutput
  \/ Interrupt

\* the eval set: t1 answerable with one gold support, t2 unanswerable
TestCases ==
  [id \in {"t1", "t2"} |->
     IF id = "t1" THEN [id |-> "t1", gold_supports |-> <<GoldA>>]
                  ELSE [id |-> "t2", answerable |-> FALSE]]

\* results as run_eval.py writes them, and results that carry fields of an
\* earlier scoring; t9 is no test case of the eval set
ResultPool ==
  {[test_case_id |-> "t1", retrieved_chunks |-> Ranked(<<"a.md">>), answer |-> <<"a">>],
   [test_case_id |-> "t1", retrieved_chunks |-> Ranked(<<"b.md">>), answer |-> <<"a">>,
    retrieval_metrics |-> [recall_at_k |-> One],
    abstention |-> [abstained |-> TRUE, hallucinated |-> FALSE]],
   [test_case_id |-> "t2", retrieved_chunks |-> <<>>, answer |-> <<>>],
   [test_case_id |-> "t2", retrieved_chunks |-> Ranked(<<"b.md">>), answer |-> <<"a">>,
    abstention |-> [abstained |-> TRUE, hallucinated |-> TRUE]],
   [test_case_id |-> "t9", retrieved_chunks |-> Ranked(<<"a.md">>), answer |-> <<"a">>],
   [test_case_id |-> "t1", retrieved_chunks |-> <<[rel_path |-> "a.md"]>>, answer |-> <<"a">>]}

\* the results whose line also comes in a spelling json.dumps would not give
Respelled == {rec \in ResultPool : rec.test_case_id = "t2"}

Lines ==
  {BlankLine} \cup {dumps(rec) : rec \in ResultPool} \cup {Line(rec, FALSE) : rec \in Respelled}

InitPasses ==
  /\ results_jsonl \in SeqsUpTo(Lines, MaxResults)
  /\ original = results_jsonl
  /\ eval_set = TestCases
  /\ pass = NoPass
  /\ ran = {}
  /\ step = "manual"
  /\ metrics_json = None
  /\ last_written = ""
  /\ IdleScoring
  /\ IdleCompare
  /\ IdleTools

SpecPasses == InitPasses /\ [][NextPasses]_vars

---------------------------------------------------------------------------
(* The scoring scripts run as commands, and run_full_eval.py, which runs   *)
(* them one after the other.                                               *)

\* the file a completed pass leaves: untouched when there are no results or
\* the loop raised, else one line per updated result
Rewritten(file, updated) ==
  IF load_results(file) = <<>> \/ updated.exc # "" THEN file
  ELSE [i \in 1..Len(updated.ret) |-> dumps(updated.ret[i])]

\* update_results_with_metrics, _with_abstention or _with_judges, from its
\* first line to its return
update_results(name, file, test_cases, verdicts) ==
  Rewritten(file, updated_results_of(name, load_results(file), test_cases, verdicts))

FracAdd(a, b) == Frac(a[1] * b[2] + b[1] * a[2], a[2] * b[2])

RECURSIVE SumOf(_)
SumOf(scores) == IF scores = <<>> THEN Zero ELSE FracAdd(Head(scores), SumOf(Tail(scores)))

FracDiv(a, n) == Frac(a[1], a[2] * n)

\* sum(scores) / len(scores)
Average(scores) == FracDiv(SumOf(scores), Len(scores))

\* sum(flags) / len(flags) for booleans
Rate(flags) == Frac(Cardinality({i \in 1..Len(flags) : flags[i]}), Len(flags))

\* the results whose test case is in the eval set
Known(results, test_cases) ==
  SelectSeq(results, LAMBDA r : Get(r, "test_case_id", "") \in DOMAIN test_cases)

\* the stored retrieval_metrics of a result, computed when there are none
metrics_or_computed(stored, computed) ==
  IF DOMAIN stored # {} THEN Ok(stored)
  ELSE IF computed.exc # "" THEN computed
  ELSE Ok(to_dict(computed.ret))

retrieval_metrics_of(result, test_cases) ==
  metrics_or_computed(
    Get(result, "retrieval_metrics", EmptyDict),
    compute_retrieval_metrics_for_test(result, test_cases[result.test_case_id]))

\* the values a metric has in the entries that carry it
ValuesOf(entries, key) ==
  LET carrying == SelectSeq(entries, LAMBDA e : key \in DOMAIN e.metrics)
  IN  [i \in 1..Len(carrying) |-> carrying[i].metrics[key]]

AnswerableOnly(entries) == SelectSeq(entries, LAMBDA e : e.answerable)

\* the key of an aggregate and the metric it averages
AggregateOf ==
  [recall_at_k_avg |-> "recall_at_k", recall_all_at_k_avg |-> "recall_all_at_k",
   mrr_avg |-> "mrr", precision_at_k_avg |-> "precision_at_k",
   scope_miss_rate |-> "scope_miss", attribution_hit_rate |-> "attribution_hit"]

ScoresOf(entries, name) ==
  ValuesOf(IF name = "attribution_hit_rate" THEN AnswerableOnly(entries) ELSE entries,
           AggregateOf[name])

\* the averages over the entries: an aggregate with no score is left out
averages(entries) ==
  [name \in {n \in DOMAIN AggregateOf : ScoresOf(entries, n) # <<>>} |->
     IF name \in {"scope_miss_rate", "attribution_hit_rate"}
       THEN Rate(ScoresOf(entries, name))
       ELSE Average(ScoresOf(entries, name))]

first_exc(scored) ==
  LET raising == {i \in 1..Len(scored) : scored[i].exc # ""}
  IN  IF raising = {} THEN ""
      ELSE scored[CHOOSE i \in raising : \A j \in raising : i <= j].exc

aggregate_entries(scored, known, test_cases) ==
  IF first_exc(scored) # "" THEN Raise(first_exc(scored))
  ELSE Ok(averages([i \in 1..Len(known) |->
                      [metrics |-> scored[i].ret,
                       answerable |-> Get(test_cases[known[i].test_case_id],
                                          "answerable", TRUE)]]))

\* aggregate_retrieval_metrics over the results of the file
aggregate_retrieval_metrics(file, test_cases) ==
  aggregate_entries(
    [i \in 1..Len(Known(load_results(file), test_cases)) |->
       retrieval_metrics_of(Known(load_results(file), test_cases)[i], test_cases)],
    Known(load_results(file), test_cases), test_cases)

\* the abstention record of an unanswerable result, computed when there is none
abstention_of(result, test_case_) ==
  IF DOMAIN Get(result, "abstention", EmptyDict) # {} THEN result.abstention
  ELSE compute_abstention_metrics_for_test(result, test_case_)[1]

Unanswerable(results, test_cases) ==
  SelectSeq(Known(results, test_cases),
            LAMBDA r : ~Get(test_cases[r.test_case_id], "answerable", TRUE))

\* the rates as 0.0 when there is no unanswerable result
abstention_rates_or_zero(results, abstentions) ==
  [abstention_accuracy |->
     IF abstentions = <<>> THEN Zero
     ELSE Rate([i \in 1..Len(abstentions) |-> Get(abstentions[i], "abstained", FALSE)]),
   hallucination_rate_unanswerable |->
     IF abstentions = <<>> THEN Zero
     ELSE Rate([i \in 1..Len(abstentions) |-> Get(abstentions[i], "hallucinated", FALSE)]),
   unanswerable_tests |-> Len(abstentions),
   answerable_tests |-> Len(results) - Len(abstentions)]

abstention_rates(results, abstentions) ==
  [abstention_accuracy |->
     IF abstentions = <<>> THEN None
     ELSE Rate([i \in 1..Len(abstentions) |-> Get(abstentions[i], "abstained", FALSE)]),
   hallucination_rate_unanswerable |->
     IF abstentions = <<>> THEN None
     ELSE Rate([i \in 1..Len(abstentions) |-> Get(abstentions[i], "hallucinated", FALSE)]),
   unanswerable_tests |-> Len(abstentions),
   answerable_tests |-> Len(results) - Len(abstentions)]

\* aggregate_abstention_metrics over the results of the file
aggregate_abstention_metrics(file, test_cases) ==
  IF load_results(file) = <<>> THEN Ok(EmptyDict)
  ELSE Ok(abstention_rates(
            load_results(file),
            [i \in 1..Len(Unanswerable(load_results(file), test_cases)) |->
               abstention_of(Unanswerable(load_results(file), test_cases)[i],
                             test_cases[Unanswerable(load_results(file),
                                                     test_cases)[i].test_case_id])]))

\* what main() of a scoring script does after the update: the aggregate,
\* written to --output-metrics or, with no such option, printed
report(script, update_raised, aggregate) ==
  [op |-> script,
   exc |-> IF update_raised # "" THEN update_raised ELSE aggregate.exc,
   ret |-> IF update_raised # "" THEN None ELSE aggregate.ret]

other_vars == <<pc, heading_path, shape, normalized, chunk, gold, matched, test_result, test_case>>

\* the results run_eval.py can write: no field of a scoring pass yet
FreshResults ==
  {rec \in ResultPool :
     /\ rec.test_case_id \in DOMAIN TestCases
     /\ "retrieval_metrics" \notin DOMAIN rec
     /\ "abstention" \notin DOMAIN rec}

\* ResultsWriter.write_metrics of the metrics run_eval.py builds
write_metrics(successful_tests) ==
  [run_id |-> "run",
   aggregate_metrics |-> [operational_metrics |-> [successful_tests |-> successful_tests],
                          latency |-> [total_ms |-> 0]]]

\* step 1: run_eval.py streams the results, then writes metrics.json; when
\* it fails the pipeline stops
RunEval ==
  /\ step = "run_eval"
  /\ \/ /\ step' = "stopped"
        /\ UNCHANGED <<results_jsonl, metrics_json, last_written>>
     \/ \E results \in SeqsUpTo(FreshResults, MaxResults) :
          /\ results_jsonl' = [i \in 1..Len(results) |-> dumps(results[i])]
          /\ metrics_json' = Some(write_metrics(Len(results)))
          /\ last_written' = "metrics.json"
          /\ step' = "retrieval"
  /\ UNCHANGED <<eval_set, pass, ran, original>>
  /\ UNCHANGED scoring_vars
  /\ UNCHANGED compare_vars
  /\ UNCHANGED tool_vars

\* the aggregate the script of a pass prints
aggregate_of(name, file, test_cases) ==
  IF name = "retrieval" THEN aggregate_retrieval_metrics(file, test_cases)
  ELSE IF name = "abstention" THEN aggregate_abstention_metrics(file, test_cases)
  ELSE Ok(EmptyDict)

\* a scoring script run to its end as a command of the pipeline, with no
\* --output-metrics: the file is rewritten and the aggregate printed
RunScript(name, updated) ==
  /\ results_jsonl' = Rewritten(results_jsonl, updated)
  /\ last_written' =
       IF load_results(results_jsonl) # <<>> /\ updated.exc = ""
         THEN "results.jsonl" ELSE last_written
  /\ outcome' = report(name, IF load_results(results_jsonl) = <<>> THEN "" ELSE updated.exc,
                       aggregate_of(name, results_jsonl', eval_set))

SkipScript == UNCHANGED <<results_jsonl, last_written, outcome>>

\* the step after a scoring step
NextStep == [retrieval |-> "judge", judge |-> "abstention", abstention |-> "summary"]

\* steps 2 to 4: score_retrieval.py unless --skip-retrieval-metrics,
\* judge_answers.py when judges are to run, score_abstention.py unless
\* --skip-abstention-metrics; a script that fails does not stop the pipeline
ScoringStep ==
  /\ step \in PassNames
  /\ \/ SkipScript
     \/ \E verdicts \in [1..Len(load_results(results_jsonl)) ->
                           IF step = "judge" THEN JudgeVerdicts ELSE {None}] :
          RunScript(step, updated_results_of(step, load_results(results_jsonl),
                                             eval_set, verdicts))
  /\ step' = NextStep[step]
  /\ UNCHANGED <<eval_set, pass, ran, original, metrics_json>>
  /\ UNCHANGED other_vars
  /\ UNCHANGED compare_vars
  /\ UNCHANGED tool_vars

\* create_summary_md, which reads metrics.json, and the end of the run
Summary ==
  /\ step = "summary"
  /\ step' = "complete"
  /\ UNCHANGED <<results_jsonl, eval_set, pass, ran, original, metrics_json, last_written>>
  /\ UNCHANGED scoring_vars
  /\ UNCHANGED compare_vars
  /\ UNCHANGED tool_vars

NextPipeline ==
  \/ RunEval
  \/ ScoringStep
  \/ Summary

InitPipeline ==
  /\ step = "run_eval"
  /\ results_jsonl = <<>>
  /\ original = <<>>
  /\ eval_set = TestCases
  /\ pass = NoPass
  /\ ran = {}
  /\ metrics_json = None
  /\ last_written = ""
  /\ IdleScoring
  /\ IdleCompare
  /\ IdleTools

SpecPipeline == InitPipeline /\ [][NextPipeline]_vars

---------------------------------------------------------------------------
(* compare_runs.py: the comparison of a baseline run with a new run. *)

\* d.get(key): None or the value that is present
Opt(d, key) == IF key \in DOMAIN d THEN Some(d[key]) ELSE None

\* a or b, for values that are None or truthy
Or(a, b) == IF a # None THEN a ELSE b

\* a >= b of two floats
AtLeast(a, b) == a[1] * b[2] >= b[1] * a[2]

Below(a, b) == ~AtLeast(a, b)

FracSub(a, b) == Frac(a[1] * b[2] - b[1] * a[2], a[2] * b[2])

\* the score from which an answer counts as a success
SuccessScore == Frac(4, 1)

\* the score below which an answer counts as a failure
FailureScore == Frac(3, 1)

\* the tolerance of the comparison of two judge temperatures
Tolerance == Frac(1, 1000)

\* t1 != t2, without a tolerance
TemperatureUnequal(t1, t2) == t1 # t2

\* abs(temp1 - temp2) > 0.001
TemperatureDiffers(t1, t2) ==
  Abs(t1[1] * t2[2] - t2[1] * t1[2]) * Tolerance[2] > Tolerance[1] * t1[2] * t2[2]

Differs(field, v1, v2) ==
  IF field = "judge_temperature" THEN TemperatureDiffers(v1, v2) ELSE v1 # v2

\* the if / elif of one invariant, for values that are None or truthy (a
\* temperature is None or a float): the warning it appends
check_invariant(field, v1, v2) ==
  IF v1 # None /\ v2 # None
    THEN IF Differs(field, v1[1], v2[1])
           THEN <<[field |-> field, warning |-> "differs"]>> ELSE <<>>
  ELSE IF (v1 # None) # (v2 # None)
    THEN <<[field |-> field, warning |-> "missing"]>>
  ELSE <<>>

eval_hash(config, metrics) ==
  Or(Opt(config, "eval_set_commit_hash"), Opt(metrics, "eval_set_commit_hash"))

invariant_warnings(config1, config2, metrics1, metrics2) ==
  check_invariant("eval_set_commit_hash", eval_hash(config1, metrics1), eval_hash(config2, metrics2))
    \o check_invariant("judge_model", Opt(config1, "judge_model"), Opt(config2, "judge_model"))
    \o check_invariant("judge_prompt_version", Opt(config1, "judge_prompt_version"),
                       Opt(config2, "judge_prompt_version"))
    \o check_invariant("judge_temperature", Opt(config1, "judge_temperature"),
                       Opt(config2, "judge_temperature"))

\* all_match is set to False where a "differs" warning is appended
all_match_of(warnings) == \A i \in DOMAIN warnings : warnings[i].warning # "differs"

check_invariants(config1, config2, metrics1, metrics2, ignore_invariants) ==
  IF ignore_invariants THEN [all_match |-> TRUE, warnings |-> <<>>]
  ELSE [all_match |-> all_match_of(invariant_warnings(config1, config2, metrics1, metrics2)),
        warnings |-> invariant_warnings(config1, config2, metrics1, metrics2)]

\* {r.get("test_case_id"): r for r in results}: of two results with one id
\* the later one stays
by_test_case_id(results) ==
  [id \in {results[i].test_case_id : i \in DOMAIN results} |->
     results[CHOOSE i \in DOMAIN results :
               /\ results[i].test_case_id = id
               /\ \A j \in DOMAIN results : results[j].test_case_id = id => j <= i]]

\* score1 >= 4.0 and score2 < 3.0, with a single threshold
DroppedBelowSuccess(score1, score2) == AtLeast(score1, SuccessScore) /\ Below(score2, SuccessScore)

\* score1 >= 4.0 and score2 < 3.0
Dropped(score1, score2) == AtLeast(score1, SuccessScore) /\ Below(score2, FailureScore)

\* score1 < 3.0 and score2 >= 4.0
Rose(score1, score2) == Below(score1, FailureScore) /\ AtLeast(score2, SuccessScore)

change(metric, from, to, is_regression) ==
  <<[metric |-> metric, from |-> from, to |-> to, is_regression |-> is_regression]>>

recall_change(recall1, recall2) ==
  IF recall1 = One /\ recall2 = Zero THEN change("recall_at_k", recall1, recall2, TRUE)
  ELSE IF recall1 = Zero /\ recall2 = One THEN change("recall_at_k", recall1, recall2, FALSE)
  ELSE <<>>

\* score1, score2: r.get(metric, {}).get("score")
score_change(metric, score1, score2) ==
  IF score1 # None /\ score2 # None
    THEN IF Dropped(score1[1], score2[1]) THEN change(metric, score1[1], score2[1], TRUE)
         ELSE IF Rose(score1[1], score2[1]) THEN change(metric, score1[1], score2[1], FALSE)
         ELSE <<>>
  ELSE <<>>

\* the changes of one test case of both runs, with the flag each one sets
changes_of(r1, r2) ==
  recall_change(Get(Get(r1, "retrieval_metrics", EmptyDict), "recall_at_k", Zero),
                Get(Get(r2, "retrieval_metrics", EmptyDict), "recall_at_k", Zero))
    \o score_change("groundedness", Opt(Get(r1, "groundedness", EmptyDict), "score"),
                    Opt(Get(r2, "groundedness", EmptyDict), "score"))
    \o score_change("correctness", Opt(Get(r1, "correctness", EmptyDict), "score"),
                    Opt(Get(r2, "correctness", EmptyDict), "score"))

\* the item appended to regressions or to improvements
item(test_id, changes) ==
  [test_case_id |-> test_id,
   changes |-> [i \in DOMAIN changes |->
                  [metric |-> changes[i].metric, from |-> changes[i].from, to |-> changes[i].to]]]

items(dict1, dict2, is_regression) ==
  {item(test_id, changes_of(dict1[test_id], dict2[test_id])) :
     test_id \in {id \in DOMAIN dict1 \cap DOMAIN dict2 :
                    \E i \in DOMAIN changes_of(dict1[id], dict2[id]) :
                       changes_of(dict1[id], dict2[id])[i].is_regression = is_regression}}

\* the two lists, each as the set of its items
find_test_changes(results1, results2) ==
  [regressions |-> items(by_test_case_id(results1), by_test_case_id(results2), TRUE),
   improvements |-> items(by_test_case_id(results1), by_test_case_id(results2), FALSE)]

\* the aggregate metrics compare_metrics looks up
AggregateNames ==
  {"recall_at_k_avg", "mrr_avg", "precision_at_k_avg", "scope_miss_rate",
   "attribution_hit_rate", "groundedness_avg", "correctness_avg",
   "abstention_accuracy", "hallucination_rate_unanswerable"}

\* (v2 - v1) / v1 * 100
delta_pct(v1, v2) == Frac((v2[1] * v1[2] - v1[1] * v2[2]) * 100, v2[2] * v1[1])

comparison(v1, v2) ==
  [baseline |-> v1, new |-> v2, delta |-> FracSub(v2, v1),
   delta_pct |-> IF v1 # Zero THEN Some(delta_pct(v1, v2)) ELSE None]

\* the keys of a dict whose value is not None
NotNone(d) == {key \in DOMAIN d : d[key] # None}

\* the entry of one latency percentile, when both runs have it
latency_comparison(latency1, latency2, name, key) ==
  IF key \in NotNone(latency1) \cap NotNone(latency2)
    THEN name :> comparison(latency1[key], latency2[key]) ELSE EmptyDict

compare_metrics(metrics1, metrics2) ==
  LET agg1 == Get(metrics1, "aggregate_metrics", EmptyDict)
      agg2 == Get(metrics2, "aggregate_metrics", EmptyDict)
  IN  [name \in AggregateNames \cap NotNone(agg1) \cap NotNone(agg2) |->
         comparison(agg1[name], agg2[name])]
        @@ latency_comparison(Get(agg1, "latency", EmptyDict), Get(agg2, "latency", EmptyDict),
                              "latency_p50_ms", "p50_ms")
        @@ latency_comparison(Get(agg1, "latency", EmptyDict), Get(agg2, "latency", EmptyDict),
                              "latency_p95_ms", "p95_ms")

fields_to_compare ==
  {"k", "rerank_weights", "folder_mode", "llm_model", "embedding_model", "judge_model",
   "judge_prompt_version", "judge_temperature", "index_build_version",
   "retriever_version", "answerer_version"}

compare_configs(config1, config2) ==
  [field \in {f \in fields_to_compare : Opt(config1, f) # Opt(config2, f)} |->
     [baseline |-> Opt(config1, field), new |-> Opt(config2, field)]]

\* what main passes to print_comparison_report
report_of(r1, r2, warnings) ==
  [comparisons |-> compare_metrics(r1.metrics, r2.metrics),
   regressions |-> find_test_changes(r1.results, r2.results).regressions,
   improvements |-> find_test_changes(r1.results, r2.results).improvements,
   config_diffs |-> compare_configs(r1.config, r2.config),
   invariant_warnings |-> warnings]

\* main, once both run directories are found: it exits when a metrics.json
\* is missing or empty, and when an invariant differs and --ignore-invariants
\* is not given
main(r1, r2, ignore_invariants) ==
  IF DOMAIN r1.metrics = {} \/ DOMAIN r2.metrics = {}
    THEN Raise("SystemExit")
  ELSE IF /\ ~check_invariants(r1.config, r2.config, r1.metrics, r2.metrics, ignore_invariants).all_match
          /\ ~ignore_invariants
    THEN [exc |-> "SystemExit",
          ret |-> [invariant_warnings |->
                     check_invariants(r1.config, r2.config, r1.metrics, r2.metrics,
                                      ignore_invariants).warnings]]
  ELSE Ok(report_of(r1, r2, check_invariants(r1.config, r2.config, r1.metrics, r2.metrics,
                                             ignore_invariants).warnings))

input_vars == <<heading_path, shape, normalized, chunk, gold, matched, test_result, test_case>>

Compared(op, ignore_invariants, res) ==
  /\ pc = "compare"
  /\ pc' = "done"
  /\ outcome' = [op |-> op, ignore_invariants |-> ignore_invariants, exc |-> res.exc, ret |-> res.ret]
  /\ UNCHANGED input_vars
  /\ UNCHANGED pipeline_vars
  /\ UNCHANGED compare_vars
  /\ UNCHANGED tool_vars

FindTestChanges ==
  Compared("find_test_changes", FALSE, Ok(find_test_changes(run1.results, run2.results)))

CheckInvariants ==
  \E ignore_invariants \in BOOLEAN :
     Compared("check_invariants", ignore_invariants,
              Ok(check_invariants(run1.config, run2.config, run1.metrics, run2.metrics,
                                  ignore_invariants)))

CompareRuns ==
  \E ignore_invariants \in BOOLEAN :
     Compared("main", ignore_invariants, main(run1, run2, ignore_invariants))

NextCompare ==
  \/ FindTestChanges
  \/ CheckInvariants
  \/ CompareRuns

\* the judge scores of a result: around both thresholds and between them
Scores == {Frac(2, 1), Frac(29, 10), Frac(3, 1), Frac(7, 2), Frac(4, 1), Frac(21, 5)}

\* the results of one test case: with and without retrieval metrics, with
\* and without each judge score
ResultsOf(id) ==
  UNION {WithOption(g, "correctness", {[score |-> Frac(2, 1)], [score |-> Frac(9, 2)]}) :
         g \in UNION {WithOption(r, "groundedness", {[score |-> s] : s \in Scores}) :
                      r \in WithOption([test_case_id |-> id], "retrieval_metrics",
                                       {[recall_at_k |-> Zero], [recall_at_k |-> One]})}}

Hit(id) == [test_case_id |-> id, retrieval_metrics |-> [recall_at_k |-> One]]

Miss(id) == [test_case_id |-> id, retrieval_metrics |-> [recall_at_k |-> Zero]]

\* a metrics.json with aggregates
MetricsOf(recall) ==
  [run_id |-> "run",
   aggregate_metrics |-> [recall_at_k_avg |-> recall, latency |-> [p50_ms |-> One]]]

\* a config.json of run_eval.py
BaseConfig == [k |-> DefaultK, eval_set_commit_hash |-> "h1"]

\* runs that share t1, the baseline run with a second result of t1 or with
\* t2, the new run with t3; every pair of results of t1
InitChanges ==
  /\ IdleTools
  /\ pc = "compare"
  /\ \E r \in ResultsOf("t1") :
        run1 \in {[config |-> BaseConfig, metrics |-> MetricsOf(One), results |-> rs] :
                   rs \in {<<r>>, <<r, Hit("t2")>>, <<Hit("t1"), r>>}}
  /\ \E r \in ResultsOf("t1") :
        run2 \in {[config |-> BaseConfig, metrics |-> MetricsOf(Zero), results |-> rs] :
                   rs \in {<<r>>, <<r, Miss("t3")>>}}
  /\ outcome = NoOutcome
  /\ IdleNormalizer
  /\ IdleMatcher
  /\ test_result = NoRecord
  /\ test_case = NoRecord
  /\ results_jsonl = <<>>
  /\ eval_set = <<>>
  /\ pass = NoPass
  /\ ran = {}
  /\ original = <<>>
  /\ step = ""
  /\ metrics_json = None
  /\ last_written = ""

SpecChanges == InitChanges /\ [][NextCompare]_vars

Temperatures == {Zero, Tolerance, Frac(1, 500)}

\* the config.json files: each invariant absent or with one of its values
ConfigsOfRun ==
  UNION {WithOption(c, "judge_temperature", Temperatures) :
         c \in UNION {WithOption(b, "judge_prompt_version", {"v1.0", "v1.1"}) :
                      b \in UNION {WithOption(a, "judge_model", {"m1", "m2"}) :
                                   a \in WithOption([k |-> DefaultK], "eval_set_commit_hash",
                                                    {"h1", "h2"})}}}

\* the metrics.json files: empty, and with or without the hash
MetricsOfRun == {EmptyDict} \cup WithOption(MetricsOf(One), "eval_set_commit_hash", {"h2"})

\* a regression of t1 between the runs, whatever the configs
InitInvariants ==
  /\ IdleTools
  /\ pc = "compare"
  /\ run1 \in [config : ConfigsOfRun, metrics : MetricsOfRun, results : {<<Hit("t1")>>}]
  /\ run2 \in [config : ConfigsOfRun, metrics : MetricsOfRun, results : {<<Miss("t1")>>}]
  /\ outcome = NoOutcome
  /\ IdleNormalizer
  /\ IdleMatcher
  /\ test_result = NoRecord
  /\ test_case = NoRecord
  /\ results_jsonl = <<>>
  /\ eval_set = <<>>
  /\ pass = NoPass
  /\ ran = {}
  /\ original = <<>>
  /\ step = ""
  /\ metrics_json = None
  /\ last_written = ""

SpecInvariants == InitInvariants /\ [][NextCompare]_vars

---------------------------------------------------------------------------
(* The aggregates of a run and their comparison, each called on its own. *)

Aggregated(op, res) ==
  /\ pc = "aggregate"
  /\ pc' = "done"
  /\ outcome' = [op |-> op, exc |-> res.exc, ret |-> res.ret]
  /\ UNCHANGED input_vars
  /\ UNCHANGED pipeline_vars
  /\ UNCHANGED compare_vars
  /\ UNCHANGED tool_vars

AggregateRetrieval ==
  Aggregated("aggregate_retrieval_metrics", aggregate_retrieval_metrics(results_jsonl, eval_set))

AggregateAbstention ==
  Aggregated("aggregate_abstention_metrics", aggregate_abstention_metrics(results_jsonl, eval_set))

CompareMetrics ==
  Aggregated("compare_metrics", Ok(compare_metrics(run1.metrics, run2.metrics)))

NextAggregates ==
  \/ AggregateRetrieval
  \/ AggregateAbstention
  \/ CompareMetrics

AggregatesOf(recall, accuracy, latency) ==
  [recall_at_k_avg |-> recall, abstention_accuracy |-> accuracy, latency |-> latency]

\* the metrics.json files: no aggregate at all, averages that are 0.0, an
\* abstention accuracy that is null, latencies present, 0 and missing
MetricsFiles ==
  {[run_id |-> "run", aggregate_metrics |-> agg] :
     agg \in {EmptyDict,
              AggregatesOf(Zero, None, [p50_ms |-> Zero]),
              AggregatesOf(Frac(1, 2), One, [p50_ms |-> One, p95_ms |-> Zero]),
              AggregatesOf(One, Zero, EmptyDict),
              AggregatesOf(Zero, Zero, [p50_ms |-> One, p95_ms |-> One])}}

\* any results file with the eval set, any two metrics files
InitAggregates ==
  /\ IdleTools
  /\ pc = "aggregate"
  /\ results_jsonl \in SeqsUpTo(Lines, MaxResults)
  /\ original = results_jsonl
  /\ eval_set = TestCases
  /\ run1 \in [config : {BaseConfig}, metrics : MetricsFiles, results : {<<>>}]
  /\ run2 \in [config : {BaseConfig}, metrics : MetricsFiles, results : {<<>>}]
  /\ outcome = NoOutcome
  /\ IdleNormalizer
  /\ IdleMatcher
  /\ test_result = NoRecord
  /\ test_case = NoRecord
  /\ pass = NoPass
  /\ ran = {}
  /\ step = ""
  /\ metrics_json = None
  /\ last_written = ""

SpecAggregates == InitAggregates /\ [][NextAggregates]_vars

---------------------------------------------------------------------------
(* The loaders of the ground-truth file and of the results file, on files  *)
(* whose lines need not be JSON objects.                                   *)

\* a line that is no JSON text, such as a record cut short
MalformedLine == [blank |-> FALSE, text |-> "{"]

\* a line that is JSON but no object
NullLine == [blank |-> FALSE, json |-> "null"]

\* json.loads(line)
loads(line) ==
  IF "text" \in DOMAIN line THEN Raise("JSONDecodeError")
  ELSE IF "json" \in DOMAIN line THEN Ok(line.json)
  ELSE Ok(line.rec)

NonBlank(file) == SelectSeq(file, LAMBDA l : ~l.blank)

\* storage.load_results on any file: json.loads is called on each non-blank
\* line with no handler, so the first line that is no JSON ends the load
read_results(file) ==
  IF \E i \in DOMAIN file : ~file[i].blank /\ loads(file[i]).exc # ""
    THEN Raise("JSONDecodeError")
  ELSE Ok([i \in DOMAIN NonBlank(file) |-> loads(NonBlank(file)[i]).ret])

\* the lines of which load_test_cases keeps the record: JSON objects with a
\* truthy id
Kept(lines) == SelectSeq(lines, LAMBDA l : "rec" \in DOMAIN l /\ Get(l.rec, "id", "") # "")

\* test_cases[test_id] = test_case, line after line
indexed(kept) ==
  [id \in {kept[i].rec.id : i \in DOMAIN kept} |->
     kept[CHOOSE i \in DOMAIN kept :
            /\ kept[i].rec.id = id
            /\ \A j \in DOMAIN kept : kept[j].rec.id = id => j <= i].rec]

\* load_test_cases: a line that is no JSON is skipped with a warning; on a
\* line that is JSON but no object test_case.get raises AttributeError,
\* which is not handled
load_test_cases(file) ==
  IF \E i \in DOMAIN file : "json" \in DOMAIN file[i]
    THEN Raise("AttributeError")
  ELSE Ok(indexed(Kept(file)))

Loaded(op, res) ==
  /\ pc = "load"
  /\ pc' = "done"
  /\ outcome' = [op |-> op, exc |-> res.exc, ret |-> res.ret]
  /\ UNCHANGED input_vars
  /\ UNCHANGED pipeline_vars
  /\ UNCHANGED compare_vars
  /\ UNCHANGED tool_vars

LoadTestCases == Loaded("load_test_cases", load_test_cases(eval_set_jsonl))

LoadResults == Loaded("load_results", read_results(results_jsonl))

NextLoad ==
  \/ LoadTestCases
  \/ LoadResults

\* the lines of a ground-truth file: blank, cut short, no object, test
\* cases, one id twice, a record with no id
EvalSetLines ==
  {BlankLine, MalformedLine, NullLine,
   Line([id |-> "t1", gold_supports |-> <<GoldA>>], TRUE),
   Line([id |-> "t1", answerable |-> FALSE], TRUE),
   Line([id |-> "t2", answerable |-> FALSE], TRUE),
   Line([question |-> "q"], TRUE)}

ResultLines ==
  {BlankLine, MalformedLine, NullLine,
   dumps([test_case_id |-> "t1", answer |-> <<"a">>]),
   dumps([test_case_id |-> "t2", answer |-> <<>>])}

InitLoad ==
  /\ pc = "load"
  /\ eval_set_jsonl \in SeqsUpTo(EvalSetLines, MaxResults)
  /\ results_jsonl \in SeqsUpTo(ResultLines, MaxResults)
  /\ original = results_jsonl
  /\ judge_cache = <<>>
  /\ judge_calls = <<>>
  /\ args = NoArgs
  /\ session = NoSession
  /\ IdleCompare
  /\ outcome = NoOutcome
  /\ IdleNormalizer
  /\ IdleMatcher
  /\ test_result = NoRecord
  /\ test_case = NoRecord
  /\ eval_set = <<>>
  /\ pass = NoPass
  /\ ran = {}
  /\ step = ""
  /\ metrics_json = None
  /\ last_written = ""

SpecLoad == InitLoad /\ [][NextLoad]_vars

---------------------------------------------------------------------------
(* judge_answers.py: the judges, their cache and the calls of the judge    *)
(* model.  SHA-256 is taken as collision-free: a hash is the value hashed. *)

\* the characters of a chunk text that go into the context hash
HashedChars == 500

MaxRuns == 2

\* compute_context_hash: the hash of the chunk ids and the first 500
\* characters of each text
compute_context_hash(context_chunks) ==
  [i \in DOMAIN context_chunks |->
     [chunk_id |-> Get(context_chunks[i], "chunk_id", ""),
      text |-> Slice(Get(context_chunks[i], "text", <<>>), HashedChars)]]

\* compute_cache_key: the hash of the fields joined by "|"; the context hash
\* is the last field and is hexadecimal digits of a fixed number
compute_cache_key(question, answer, context_hash, judge_model, prompt_version, judge_type) ==
  [key_str |-> <<judge_type, "|", judge_model, "|", prompt_version, "|">>
                 \o question \o <<"|">> \o answer \o <<"|">>,
   context_hash |-> context_hash]

\* the context the prompt of a judge shows: the whole text of every chunk
context_text(context_chunks) ==
  [i \in DOMAIN context_chunks |-> Get(context_chunks[i], "text", <<>>)]

\* the input of a judging request
request_of(judge_type, result, judge_model, prompt_version) ==
  [judge_type |-> judge_type,
   question |-> Get(result, "question", <<>>),
   answer |-> Get(result, "answer", <<>>),
   context |-> context_text(Get(result, "retrieved_chunks", <<>>)),
   model |-> judge_model,
   prompt_version |-> prompt_version]

\* 0.0 <= score, with no upper end
InRangeOrAbove(score) == AtLeast(score, Zero)

\* 0.0 <= score <= 5.0
InRange(score) == AtLeast(score, Zero) /\ AtLeast(Frac(5, 1), score)

\* JudgeCache.put
put(cache, cache_key, judge_type, score) ==
  [key \in DOMAIN cache \cup {cache_key} |->
     IF key = cache_key THEN [judge_type |-> judge_type, result |-> [score |-> score]]
     ELSE cache[key]]

\* judge_groundedness or judge_correctness: the cached result when there is
\* one; else the model is called, and its reply (None when the call fails)
\* is validated, cached and returned.  called holds the request when the
\* model replied, with whether the reply held a valid score.
judge_with_cache(request, cache, cache_key, reply) ==
  IF cache_key # None /\ cache_key[1] \in DOMAIN cache
    THEN [exc |-> "", score |-> cache[cache_key[1]].result.score, cache |-> cache, called |-> {}]
  ELSE IF reply = None
    THEN [exc |-> "Exception", score |-> Zero, cache |-> cache, called |-> {}]
  ELSE IF ~InRange(reply[1])
    THEN [exc |-> "Exception", score |-> Zero, cache |-> cache,
          called |-> {[request |-> request, valid |-> FALSE]}]
  ELSE [exc |-> "", score |-> reply[1],
        cache |-> IF cache_key # None THEN put(cache, cache_key[1], request.judge_type, reply[1])
                  ELSE cache,
        called |-> {[request |-> request, valid |-> TRUE]}]

\* the request of a result to one judge
question_of(result) == Get(result, "question", <<>>)

answer_of(result) == Get(result, "answer", <<>>)

chunks_of(result) == Get(result, "retrieved_chunks", <<>>)

key_of(result, judge_model, prompt_version, judge_type) ==
  compute_cache_key(question_of(result), answer_of(result),
                    compute_context_hash(chunks_of(result)),
                    judge_model, prompt_version, judge_type)

\* chunk text cut for judge_input
Truncated200(text) == IF Len(text) > 200 THEN Slice(text, 200) \o <<".", ".", ".">> ELSE text

\* the four fields a judged result gets
judged(result, groundedness, correctness) ==
  [key \in DOMAIN result \cup {"groundedness", "correctness", "judge_input", "cost"} |->
     CASE key = "groundedness" -> [score |-> groundedness]
       [] key = "correctness" -> [score |-> correctness]
       [] key = "judge_input" ->
            [question |-> question_of(result), answer |-> answer_of(result),
             context_chunk_ids |-> [i \in DOMAIN chunks_of(result) |->
                                      Get(chunks_of(result)[i], "chunk_id", "")],
             context_chunks_truncated |-> [i \in DOMAIN chunks_of(result) |->
                                             Truncated200(Get(chunks_of(result)[i], "text", <<>>))]]
       [] key = "cost" -> [judge_tokens |-> 0]
       [] OTHER -> result[key]]

\* the second judge of a result, after the first
after_groundedness(result, g, c) ==
  IF c.exc # ""
    THEN [result |-> result, cache |-> c.cache, called |-> g.called \cup c.called]
  ELSE [result |-> judged(result, g.score, c.score), cache |-> c.cache,
        called |-> g.called \cup c.called]

\* the loop body of update_results_with_judges for one result: the result it
\* appends, the cache it leaves and the requests the model replied to; g is
\* what judge_groundedness gives
judge_one(result, cache, judge_model, prompt_version, reply_c, g) ==
  IF answer_of(result) = <<>> \/ chunks_of(result) = <<>>
    THEN [result |-> result, cache |-> cache, called |-> {}]
  ELSE IF g.exc # ""
    THEN [result |-> result, cache |-> g.cache, called |-> g.called]
  ELSE after_groundedness(
         result, g,
         judge_with_cache(request_of("correctness", result, judge_model, prompt_version),
               g.cache, Some(key_of(result, judge_model, prompt_version, "correctness")), reply_c))

\* the judge model of the run and the version of its prompts
JudgeModel == "m1"

PromptVersion == "v1.0"

\* the replies of the judge model: none (the call fails), a score, a score
\* above 5
Replies == {None, Some(Frac(9, 2)), Some(Frac(6, 1))}

\* the requests the model replied to, counted
Count(calls, called) ==
  [x \in DOMAIN calls \cup called |->
     (IF x \in DOMAIN calls THEN calls[x] ELSE 0) + (IF x \in called THEN 1 ELSE 0)]

\* the reply of a judge the loop body used: none when the model was not
\* called or did not reply
Used(judge_type, reply, called) ==
  IF \E call \in called : call.request.judge_type = judge_type THEN reply ELSE None

judge_frame ==
  /\ pc' = pc
  /\ outcome' = outcome
  /\ UNCHANGED input_vars
  /\ UNCHANGED compare_vars
  /\ UNCHANGED <<eval_set, original, step, metrics_json, eval_set_jsonl, args, session>>

\* main of judge_answers.py up to the loop: the cache file and the results
\* are loaded
StartJudge ==
  /\ pc = "judge"
  /\ pass.pc \in {"idle", "empty", "done", "interrupted", "checked"}
  /\ Cardinality(ran) < MaxRuns
  /\ ran' = ran \cup {Cardinality(ran) + 1}
  /\ pass' = IF load_results(results_jsonl) = <<>>
               THEN [NoPass EXCEPT !.name = "judge_answers", !.pc = "empty"]
               ELSE [name |-> "judge_answers", pc |-> "judging",
                     results |-> load_results(results_jsonl),
                     updated_results |-> <<>>, written |-> 0, replies |-> <<>>]
  /\ UNCHANGED <<results_jsonl, judge_cache, judge_calls, last_written>>
  /\ judge_frame

Judged(reply_g, reply_c, one) ==
  /\ pass' = [pass EXCEPT
                !.updated_results = Append(@, one.result),
                !.replies = Append(@, [groundedness |-> Used("groundedness", reply_g, one.called),
                                       correctness |-> Used("correctness", reply_c, one.called)])]
  /\ judge_cache' = one.cache
  /\ judge_calls' = Count(judge_calls, one.called)

\* the loop body of update_results_with_judges for the next result
JudgeNext ==
  /\ pc = "judge"
  /\ pass.pc = "judging"
  /\ Len(pass.updated_results) < Len(pass.results)
  /\ \E reply_g \in Replies, reply_c \in Replies :
        Judged(reply_g, reply_c,
               judge_one(pass.results[Len(pass.updated_results) + 1], judge_cache,
                         JudgeModel, PromptVersion, reply_c,
                         judge_with_cache(request_of("groundedness", pass.results[Len(pass.updated_results) + 1],
                                          JudgeModel, PromptVersion),
                               judge_cache,
                               Some(key_of(pass.results[Len(pass.updated_results) + 1],
                                           JudgeModel, PromptVersion, "groundedness")),
                               reply_g)))
  /\ UNCHANGED <<results_jsonl, ran, last_written>>
  /\ judge_frame

\* after the loop the results file is written again
WriteJudged ==
  /\ pc = "judge"
  /\ pass.pc = "judging"
  /\ Len(pass.updated_results) = Len(pass.results)
  /\ results_jsonl' = [i \in DOMAIN pass.updated_results |-> dumps(pass.updated_results[i])]
  /\ pass' = [pass EXCEPT !.pc = "done", !.written = Len(pass.updated_results)]
  /\ last_written' = "results.jsonl"
  /\ UNCHANGED <<ran, judge_cache, judge_calls>>
  /\ judge_frame

\* the run is stopped in the loop: the cache file keeps what was put
InterruptJudge ==
  /\ pc = "judge"
  /\ pass.pc = "judging"
  /\ pass' = [pass EXCEPT !.pc = "interrupted"]
  /\ UNCHANGED <<results_jsonl, ran, judge_cache, judge_calls, last_written>>
  /\ judge_frame

\* can the spot-check judge the result again
Checkable(result) ==
  /\ answer_of(result) # <<>>
  /\ chunks_of(result) # <<>>
  /\ DOMAIN Get(result, "groundedness", EmptyDict) # {} \/ DOMAIN Get(result, "correctness", EmptyDict) # {}

\* the requests the model replied to in one round of the spot-check: both
\* judges are called with no cache, the second when the first gave a score
rechecked(result, reply_c, g) ==
  IF ~Checkable(result) THEN {}
  ELSE IF g.exc # "" THEN g.called
  ELSE g.called \cup judge_with_cache(request_of("correctness", result, JudgeModel, PromptVersion),
                           judge_cache, None, reply_c).called

\* --spot-check with --spot-check-n 1 and no second judge model:
\* judge_reliability_spot_check on one result of the file
SpotCheck ==
  /\ pc = "judge"
  /\ pass.pc = "done"
  /\ \E i \in DOMAIN load_results(results_jsonl), reply_g \in Replies, reply_c \in Replies :
        judge_calls' =
          Count(judge_calls,
                rechecked(load_results(results_jsonl)[i], reply_c,
                          judge_with_cache(request_of("groundedness", load_results(results_jsonl)[i],
                                           JudgeModel, PromptVersion),
                                judge_cache, None, reply_g)))
  /\ pass' = [pass EXCEPT !.pc = "checked"]
  /\ UNCHANGED <<results_jsonl, ran, judge_cache, last_written>>
  /\ judge_frame

NextJudge ==
  \/ StartJudge
  \/ JudgeNext
  \/ WriteJudged
  \/ InterruptJudge
  \/ SpotCheck

Chunk1 == [chunk_id |-> "c1", text |-> <<"x">>]

\* results to judge: two with the same question, answer and context, one
\* with no answer, one with another answer
JudgePool ==
  {[test_case_id |-> "t1", question |-> <<"q">>, answer |-> <<"a">>, retrieved_chunks |-> <<Chunk1>>],
   [test_case_id |-> "t2", question |-> <<"q">>, answer |-> <<"a">>, retrieved_chunks |-> <<Chunk1>>],
   [test_case_id |-> "t3", question |-> <<"q">>, answer |-> <<>>, retrieved_chunks |-> <<Chunk1>>],
   [test_case_id |-> "t4", question |-> <<"q">>, answer |-> <<"b">>, retrieved_chunks |-> <<Chunk1>>]}

InitJudge ==
  /\ pc = "judge"
  /\ results_jsonl \in SeqsUpTo({dumps(rec) : rec \in JudgePool}, MaxResults)
  /\ original = results_jsonl
  /\ judge_cache = <<>>
  /\ judge_calls = <<>>
  /\ eval_set_jsonl = <<>>
  /\ args = NoArgs
  /\ session = NoSession
  /\ IdleCompare
  /\ outcome = NoOutcome
  /\ IdleNormalizer
  /\ IdleMatcher
  /\ test_result = NoRecord
  /\ test_case = NoRecord
  /\ eval_set = <<>>
  /\ pass = NoPass
  /\ ran = {}
  /\ step = ""
  /\ metrics_json = None
  /\ last_written = ""

SpecJudge == InitJudge /\ [][NextJudge]_vars

\* the cache keys update_results_with_judges computes for each result
cache_keys(results, judge_model, prompt_version) ==
  [i \in DOMAIN results |->
     [groundedness |-> key_of(results[i], judge_model, prompt_version, "groundedness"),
      correctness |-> key_of(results[i], judge_model, prompt_version, "correctness")]]

CacheKeys ==
  /\ pc = "keys"
  /\ pc' = "done"
  /\ outcome' = [op |-> "compute_cache_key", exc |-> "",
                 ret |-> cache_keys(load_results(results_jsonl), JudgeModel, PromptVersion)]
  /\ UNCHANGED input_vars
  /\ UNCHANGED pipeline_vars
  /\ UNCHANGED compare_vars
  /\ UNCHANGED tool_vars

NextCacheKey == CacheKeys

\* 500 characters
Filler == [i \in 1..HashedChars |-> "x"]

\* chunk texts: a short one, and two that differ in character 501
ChunkTexts == {<<"x">>, Filler \o <<"x">>, Filler \o <<"y">>}

\* questions and answers with and without the separator of the key
KeyTexts == SeqsUpTo({"a", "|"}, MaxTextLen)

Requests ==
  {[test_case_id |-> "t1", question |-> q, answer |-> a,
    retrieved_chunks |-> <<[chunk_id |-> "c1", text |-> text]>>] :
     q \in KeyTexts, a \in KeyTexts, text \in ChunkTexts}

\* a results file of two results
InitCacheKey ==
  /\ pc = "keys"
  /\ \E r1 \in Requests, r2 \in Requests : results_jsonl = <<dumps(r1), dumps(r2)>>
  /\ original = results_jsonl
  /\ IdleTools
  /\ IdleCompare
  /\ outcome = NoOutcome
  /\ IdleNormalizer
  /\ IdleMatcher
  /\ test_result = NoRecord
  /\ test_case = NoRecord
  /\ eval_set = <<>>
  /\ pass = NoPass
  /\ ran = {}
  /\ step = ""
  /\ metrics_json = None
  /\ last_written = ""

SpecCacheKey == InitCacheKey /\ [][NextCacheKey]_vars

---------------------------------------------------------------------------
(* C7. The normalizer is idempotent: normalizing the result of a          *)
(* normalization gives that result back.                                   *)
NormalizeIdempotent ==
  pc = "renormalized" => normalized = Some(heading_path)

(* C8. A heading path written from segment texts (no '#', no '>') with    *)
(* any number of leading '#' per segment and any whitespace around '>',   *)
(* after the '#' and between words normalizes to the texts joined by one  *)
(* space, the non-empty segments joined by " > ": markers and spacing do  *)
(* not show in the result, and empty segments are dropped.                 *)
NormalizeIgnoresMarkersAndSpacing ==
  (pc = "normalized" /\ shape # None) => normalized = Some(Canon(shape[1]))

\* "## a b >\t ### b"-like input: markers, an empty segment or uneven spacing
NormalizeShapeWitness ==
  /\ pc = "normalized"
  /\ shape # None
  /\ Len(shape[1].segments) = 2
  /\ shape[1].segments[1].hashes # shape[1].segments[2].hashes
  /\ shape[1].segments[1].text = <<"a", "b">>
  /\ shape[1].segments[2].text = <<"b">>
  /\ shape[1].inner = <<SP, TAB>>
  /\ shape[1].before_sep = <<TAB, SP>>
  /\ heading_path # Canon(shape[1])
  /\ normalized = Some(<<"a", SP, "b", SP, ">", SP, "b">>)

---------------------------------------------------------------------------
(* The matcher's claims are stated on the segments of the normalized       *)
(* heading paths.                                                          *)

\* the segments of a normalized heading path
SegmentsOf(n) == IF n = <<>> THEN <<>> ELSE Split(n, Separator)

IsSeqPrefix(p, s) == Len(p) <= Len(s) /\ \A i \in 1..Len(p) : p[i] = s[i]

ChunkSegments == SegmentsOf(normalize_heading_path(Get(chunk, "heading_path", <<>>)))

GoldSegments == SegmentsOf(normalize_heading_path(Get(gold, "heading_path", <<>>)))

NoSnippets == Get(gold, "snippets", None) = <<>>

(* C1. With no snippets: on the same rel_path a chunk whose heading path   *)
(* extends the gold's matches and a chunk whose heading path is a strict   *)
(* ancestor of the gold's does not; on another rel_path (case-sensitive)   *)
(* nothing matches.                                                        *)
MatchIsAsymmetric ==
  (pc = "matched" /\ NoSnippets) =>
     /\ (chunk.rel_path = gold.rel_path /\ IsSeqPrefix(GoldSegments, ChunkSegments))
           => matched = Some(TRUE)
     /\ (IsSeqPrefix(ChunkSegments, GoldSegments) /\ ChunkSegments # GoldSegments)
           => matched = Some(FALSE)
     /\ chunk.rel_path # gold.rel_path => matched = Some(FALSE)

\* gold "a", chunk "a > b" on the same rel_path: a match
MatchExtendsWitness ==
  /\ pc = "matched"
  /\ NoSnippets
  /\ chunk.rel_path = gold.rel_path
  /\ GoldSegments = <<(<<"a">>)>>
  /\ ChunkSegments = <<(<<"a">>), (<<"b">>)>>
  /\ matched = Some(TRUE)

(* C2. With no snippets and the same rel_path, a match means the segments  *)
(* of the gold's normalized heading path are a prefix of the segments of   *)
(* the chunk's: the test is segment-wise, not a raw string prefix.         *)
MatchIsSegmentWise ==
  (pc = "matched" /\ NoSnippets /\ chunk.rel_path = gold.rel_path /\ matched = Some(TRUE))
     => IsSeqPrefix(GoldSegments, ChunkSegments)

\* c and d are the same letter, whatever the case
SameLetter(c, d) == c = d \/ {c, d} \in {{"x", "X"}, {"y", "Y"}}

OccursIgnoringCase(snippet, text) ==
  \E i \in 0..(Len(text) - Len(snippet)) :
     \A j \in 1..Len(snippet) : SameLetter(text[i + j], snippet[j])

HeadingChecksPass ==
  /\ chunk.rel_path = gold.rel_path
  /\ StartsWith(normalize_heading_path(Get(chunk, "heading_path", <<>>)),
                normalize_heading_path(Get(gold, "heading_path", <<>>)))

(* C3. When the rel_path and heading checks pass, the result is true iff   *)
(* the gold support has no snippets or at least one of its snippets occurs *)
(* in the chunk text, ignoring case.                                       *)
SnippetGating ==
  (pc = "matched" /\ HeadingChecksPass) =>
     (matched = Some(TRUE) <=>
        \/ NoSnippets
        \/ \E i \in 1..Len(gold.snippets) :
              OccursIgnoringCase(gold.snippets[i], Get(chunk, "text", <<>>)))

\* snippets ["x", "Y"], text "Xy" matches only through case folding
SnippetWitness ==
  /\ pc = "matched"
  /\ HeadingChecksPass
  /\ ~NoSnippets
  /\ gold.snippets = <<(<<"x", "Y">>)>>
  /\ Get(chunk, "text", <<>>) = <<"X", "y">>
  /\ matched = Some(TRUE)

---------------------------------------------------------------------------
(* The metric engine's claims. *)

Done(op) == pc = "done" /\ outcome.op = op

TopK == Slice(Chunks, K)

Min(S) == CHOOSE x \in S : \A y \in S : x <= y

AllRanked == \A i \in 1..Len(Chunks) : "rank" \in DOMAIN Chunks[i]

\* the ranks of the matching chunks whose rank is at most k
RanksOfHits ==
  {Chunks[i].rank : i \in {j \in 1..Len(Chunks) :
                              Chunks[j].rank <= K /\ MatchesAny(Chunks[j], Golds)}}

(* C4. Recall@K looks at the chunks whose rank value is at most k: it      *)
(* returns (1.0, r) for the smallest such rank r of a matching chunk and   *)
(* (0.0, None) when every matching chunk has a rank above k.               *)
RecallSelectsByRank ==
  (Done("compute_recall_at_k") /\ AllRanked) =>
     outcome.ret = IF RanksOfHits = {} THEN <<Zero, None>>
                   ELSE <<One, Some(Min(RanksOfHits))>>

\* gold support number idx (from 0) exists and one of the first k chunks matches it
SupportMatched(idx) ==
  /\ idx \in 0..(Len(Golds) - 1)
  /\ \E i \in 1..Len(TopK) : MatchesSupport(TopK[i], Golds[idx + 1])

GroupSatisfied(group) == \A n \in 1..Len(group) : SupportMatched(group[n])

GroupIsInvalid(group) == \E n \in 1..Len(group) : group[n] \notin 0..(Len(Golds) - 1)

(* C5. With non-empty required_support_groups Recall-all@K is 1.0 iff      *)
(* some group has every one of its gold supports matched by one of the     *)
(* first k chunks, and 0.0 otherwise: OR over groups, AND within a group.  *)
RecallAllIsOrOfAnds ==
  (Done("compute_recall_all_at_k") /\ Groups # <<>>) =>
     /\ outcome.exc = ""
     /\ outcome.ret = IF \E g \in 1..Len(Groups) : GroupSatisfied(Groups[g])
                      THEN One ELSE Zero

(* C6. A group with an index that is no position of gold_supports (below 0 *)
(* or at least its length) is never satisfied: the function does not       *)
(* raise, and when every group has such an index the result is 0.0.        *)
InvalidGroupNeverSatisfied ==
  (Done("compute_recall_all_at_k") /\ Groups # <<>>) =>
     /\ (\E g \in 1..Len(Groups) : GroupIsInvalid(Groups[g])) => outcome.exc = ""
     /\ (\A g \in 1..Len(Groups) : GroupIsInvalid(Groups[g])) => outcome.ret = Zero

(* C9. The metric engine is total: compute_retrieval_metrics_for_test      *)
(* raises nothing when optional fields are missing.                        *)
EngineIsTotal ==
  Done("compute_retrieval_metrics_for_test") => outcome.exc = ""

\* the positions, among the first k chunks, of the chunks that match
HitPositions == {i \in 1..Len(TopK) : MatchesAny(TopK[i], Golds)}

(* C10. In the metrics of a test result, recall_at_k = 1.0 comes with      *)
(* mrr = 1 / r for the rank r of the first matching chunk among the first  *)
(* k, and recall_at_k = 0.0 comes with mrr = 0.0.                          *)
MrrConsistentWithRecall ==
  (Done("compute_retrieval_metrics_for_test") /\ outcome.exc = "") =>
     /\ outcome.ret.recall_at_k \in {Zero, One}
     /\ outcome.ret.recall_at_k = One =>
           /\ HitPositions # {}
           /\ "rank" \in DOMAIN TopK[Min(HitPositions)]
           /\ outcome.ret.mrr = Frac(1, TopK[Min(HitPositions)].rank)
     /\ outcome.ret.recall_at_k = Zero => outcome.ret.mrr = Zero

\* the first match is the second chunk, of rank 3: mrr is 1/3
MrrWitness ==
  /\ Done("compute_retrieval_metrics_for_test")
  /\ outcome.exc = ""
  /\ outcome.ret.recall_at_k = One
  /\ HitPositions = {2}
  /\ outcome.ret.mrr = <<1, 3>>

---------------------------------------------------------------------------
(* The claims of the other retrieval metrics. *)

\* the chunks among the first k that match at least one gold support
MatchingInTopK == {i \in 1..Len(TopK) : MatchesAny(TopK[i], Golds)}

(* C11. For k >= 0 Precision@K is the number of chunks among the first k   *)
(* that match some gold support, each counted once, divided by k (also     *)
(* when fewer than k chunks were retrieved); it is 0.0 for k = 0 and lies  *)
(* in [0, 1].                                                              *)
PrecisionIsCountOverK ==
  (Done("compute_precision_at_k") /\ K >= 0) =>
     /\ K = 0 => outcome.ret = Zero
     /\ K > 0 => outcome.ret[1] * K = Cardinality(MatchingInTopK) * outcome.ret[2]
     /\ outcome.ret[2] > 0
     /\ 0 <= outcome.ret[1]
     /\ outcome.ret[1] <= outcome.ret[2]

\* one retrieved chunk, which matches two gold supports, and k = 2: 1/2
PrecisionWitness ==
  /\ Done("compute_precision_at_k")
  /\ K = 2
  /\ Len(Chunks) = 1
  /\ Cardinality({j \in 1..Len(Golds) : MatchesSupport(Chunks[1], Golds[j])}) = 2
  /\ outcome.ret = <<1, 2>>

\* no chunk of the whole retrieved list matches a gold support
NothingRetrievedMatches == \A i \in 1..Len(Chunks) : ~MatchesAny(Chunks[i], Golds)

ScopeMissExpected ==
  /\ FolderMode \in {"on", "on_with_fallback"}
  /\ Golds # <<>>
  /\ NothingRetrievedMatches

ReferenceAnchors(ref, g) ==
  /\ Get(ref, "rel_path", "") = Get(g, "rel_path", "")
  /\ StartsWith(normalize_heading_path(Get(ref, "heading_path", <<>>)),
                normalize_heading_path(Get(g, "heading_path", <<>>)))

HasNoSnippets(g) == Get(g, "snippets", None) = <<>>

HasEmptySnippet(g) ==
  \E n \in 1..Len(Get(g, "snippets", None)) : g.snippets[n] = <<>>

(* C13, as claimed. An attribution hit needs an answerable test case and a *)
(* reference that matches a gold support that has no snippets: a gold      *)
(* support with a non-empty snippets list never matches a reference.       *)
AttributionOnlyWithoutSnippets ==
  (Done("compute_attribution_hit") /\ outcome.ret = TRUE) =>
     /\ Answerable
     /\ \E i \in 1..Len(References), j \in 1..Len(Golds) :
           HasNoSnippets(Golds[j]) /\ ReferenceAnchors(References[i], Golds[j])

(* C13, amended. An attribution hit needs an answerable test case and a    *)
(* reference that matches a gold support that has no snippets or has the   *)
(* empty string among its snippets: a gold support all of whose snippets   *)
(* are non-empty strings never matches a reference.                        *)
AttributionOnlyWithoutRealSnippets ==
  (Done("compute_attribution_hit") /\ outcome.ret = TRUE) =>
     /\ Answerable
     /\ \E i \in 1..Len(References), j \in 1..Len(Golds) :
           /\ HasNoSnippets(Golds[j]) \/ HasEmptySnippet(Golds[j])
           /\ ReferenceAnchors(References[i], Golds[j])

\* a reference with the snippet in its own text, and only a snippet-bearing
\* gold support on its rel_path and heading: no hit
AttributionWitness ==
  /\ Done("compute_attribution_hit")
  /\ Answerable
  /\ Golds = <<GoldASnippet>>
  /\ \E i \in 1..Len(References) :
        /\ ReferenceAnchors(References[i], Golds[1])
        /\ Get(References[i], "text", <<>>) = <<"x">>
  /\ outcome.ret = FALSE

---------------------------------------------------------------------------
(* The claims of the abstention metrics. *)

\* the answer is missing, empty or made of whitespace only
AnswerIsBlank ==
  \A i \in 1..Len(Get(test_result, "answer", <<>>)) : test_result.answer[i] \in Whitespace

(* C14. compute_abstention_metrics_for_test returns None for an answerable *)
(* test case; for an unanswerable one hallucinated is the negation of      *)
(* abstained, and abstained is the stored flag when the test result        *)
(* carries an abstention record and otherwise true iff the answer is empty *)
(* or only whitespace.                                                     *)
AbstentionStoredOrInferred ==
  Done("compute_abstention_metrics_for_test") =>
     IF Answerable
       THEN outcome.ret = None
       ELSE /\ outcome.ret # None
            /\ outcome.ret[1].hallucinated = ~outcome.ret[1].abstained
            /\ outcome.ret[1].abstained =
                 IF "abstention" \in DOMAIN test_result
                   THEN test_result.abstention.abstained
                   ELSE AnswerIsBlank

\* a stored "did not abstain" beside a blank answer: the stored flag wins
AbstentionWitness ==
  /\ Done("compute_abstention_metrics_for_test")
  /\ ~Answerable
  /\ "abstention" \in DOMAIN test_result
  /\ ~test_result.abstention.abstained
  /\ Get(test_result, "answer", <<>>) = <<SP>>
  /\ outcome.ret = Some([abstained |-> FALSE, hallucinated |-> TRUE])

---------------------------------------------------------------------------
(* The claims of the passes over results.jsonl. *)

\* the file one complete retrieval or abstention pass makes of a file
PassFile(name, file) ==
  update_results(name, file, eval_set, NoVerdicts(load_results(file)))

AfterRetrieval == IF "retrieval" \in ran THEN PassFile("retrieval", original) ELSE original

\* the file after one retrieval pass and then one abstention pass, for the
\* passes that have run
EnrichedOnce ==
  IF "abstention" \in ran THEN PassFile("abstention", AfterRetrieval) ELSE AfterRetrieval

BetweenPasses == pass.pc \in {"idle", "done", "empty", "failed"}

SameExcept(old, new, key) ==
  /\ DOMAIN old \ {key} = DOMAIN new \ {key}
  /\ \A f \in DOMAIN old \ {key} : old[f] = new[f]

\* what the claim allows a pass to make of one loaded result
ScoredOnly(name, old, new) ==
  IF old.test_case_id \notin DOMAIN eval_set THEN new = old
  ELSE IF name = "retrieval" THEN SameExcept(old, new, "retrieval_metrics")
  ELSE /\ SameExcept(old, new, "abstention")
       /\ Get(eval_set[old.test_case_id], "answerable", TRUE) => new = old

(* C16. A retrieval or abstention pass writes as many records as it        *)
(* loaded, in the same order; a result of an unknown test case is written  *)
(* back unchanged; of any other the retrieval pass changes only            *)
(* retrieval_metrics and the abstention pass only abstention, and nothing  *)
(* for an answerable test case; a pass that raises leaves the results.     *)
ScoringKeepsResults ==
  /\ (pass.pc = "done" /\ pass.name \in {"retrieval", "abstention"}) =>
        /\ Len(results_jsonl) = Len(pass.results)
        /\ \A i \in 1..Len(pass.results) :
              /\ ~results_jsonl[i].blank
              /\ ScoredOnly(pass.name, pass.results[i], results_jsonl[i].rec)
  /\ pass.pc = "failed" => load_results(results_jsonl) = pass.results

\* an unknown test case first, then a scored one: both written, in that order
KeepsResultsWitness ==
  /\ pass.pc = "done"
  /\ pass.name = "retrieval"
  /\ Len(pass.results) = 2
  /\ pass.results[1].test_case_id = "t9"
  /\ pass.results[2].test_case_id = "t1"
  /\ results_jsonl[1].rec = pass.results[1]
  /\ results_jsonl[2].rec # pass.results[2]

(* C17. A pass that is interrupted leaves in results.jsonl either all the  *)
(* records it loaded or all the records it computed.                       *)
RewriteIsAtomic ==
  pass.pc = "interrupted" =>
     load_results(results_jsonl) \in {pass.results, pass.updated_results}

---------------------------------------------------------------------------
(* The claim of the pipeline. *)

SomeResultScored ==
  \E i \in 1..Len(load_results(results_jsonl)) :
     "retrieval_metrics" \in DOMAIN load_results(results_jsonl)[i]

(* C18. At the end of a full pipeline run metrics.json is the file written *)
(* last, after every rewrite of results.jsonl, and it holds the retrieval  *)
(* averages of the results that were scored.                               *)
MetricsPersistedLast ==
  step = "complete" =>
     /\ last_written = "metrics.json"
     /\ SomeResultScored => "recall_at_k_avg" \in DOMAIN metrics_json[1].aggregate_metrics

---------------------------------------------------------------------------
(* The claims of the comparison of two runs. *)

\* the result of a test case in a run: the last one with its id
ResultIn(run, id) ==
  run.results[CHOOSE i \in DOMAIN run.results :
                /\ run.results[i].test_case_id = id
                /\ \A j \in (i + 1)..Len(run.results) : run.results[j].test_case_id # id]

IdsOf(run) == {run.results[i].test_case_id : i \in DOMAIN run.results}

\* the recall_at_k of a result, 0.0 for a result that has none
RecallOf(r) ==
  IF "retrieval_metrics" \in DOMAIN r /\ "recall_at_k" \in DOMAIN r.retrieval_metrics
    THEN r.retrieval_metrics.recall_at_k ELSE Zero

\* both runs have a score of this judge for the test case
BothScored(id, judge) ==
  /\ judge \in DOMAIN ResultIn(run1, id) /\ "score" \in DOMAIN ResultIn(run1, id)[judge]
  /\ judge \in DOMAIN ResultIn(run2, id) /\ "score" \in DOMAIN ResultIn(run2, id)[judge]

\* 10 * score as an integer: the scores have one decimal
Tenths(score) == (10 * score[1]) \div score[2]

ScoreFell(id, judge) ==
  /\ BothScored(id, judge)
  /\ Tenths(ResultIn(run1, id)[judge].score) >= 40
  /\ Tenths(ResultIn(run2, id)[judge].score) < 30

ScoreClimbed(id, judge) ==
  /\ BothScored(id, judge)
  /\ Tenths(ResultIn(run1, id)[judge].score) < 30
  /\ Tenths(ResultIn(run2, id)[judge].score) >= 40

Judges == {"groundedness", "correctness"}

IsRegression(id) ==
  \/ RecallOf(ResultIn(run1, id)) = One /\ RecallOf(ResultIn(run2, id)) = Zero
  \/ \E judge \in Judges : ScoreFell(id, judge)

IsImprovement(id) ==
  \/ RecallOf(ResultIn(run1, id)) = Zero /\ RecallOf(ResultIn(run2, id)) = One
  \/ \E judge \in Judges : ScoreClimbed(id, judge)

ListedIn(list) == {e.test_case_id : e \in list}

InvariantFields ==
  {"eval_set_commit_hash", "judge_model", "judge_prompt_version", "judge_temperature"}

\* is the invariant present in the run: the hash in config.json or in
\* metrics.json, the others in config.json
PresentIn(run, field) ==
  \/ field \in DOMAIN run.config
  \/ field = "eval_set_commit_hash" /\ field \in DOMAIN run.metrics

ValueIn(run, field) ==
  IF field \in DOMAIN run.config THEN run.config[field] ELSE run.metrics[field]

\* two temperatures within 0.001 of each other
WithinTolerance(t1, t2) ==
  /\ AtLeast(Tolerance, FracSub(t1, t2))
  /\ AtLeast(Tolerance, FracSub(t2, t1))

PresentAndDifferent(field) ==
  /\ PresentIn(run1, field)
  /\ PresentIn(run2, field)
  /\ IF field = "judge_temperature"
       THEN ~WithinTolerance(ValueIn(run1, field), ValueIn(run2, field))
       ELSE ValueIn(run1, field) # ValueIn(run2, field)

Warned(warnings, field) == \E i \in DOMAIN warnings : warnings[i].field = field

---------------------------------------------------------------------------
(* The claims of the aggregates. *)

\* the results of the file whose test case is in the eval set
KnownResults ==
  {i \in DOMAIN load_results(results_jsonl) :
     load_results(results_jsonl)[i].test_case_id \in DOMAIN eval_set}

IsAnswerable(i) ==
  LET tc == eval_set[load_results(results_jsonl)[i].test_case_id]
  IN  IF "answerable" \in DOMAIN tc THEN tc.answerable ELSE TRUE

\* does the result have a value of the metric: a stored one, or, with no
\* stored retrieval_metrics, a computed one (recall_all_at_k is computed for
\* a multi_hop test case only, and the eval set has none)
Carries(i, metric) ==
  LET r == load_results(results_jsonl)[i]
  IN  IF "retrieval_metrics" \in DOMAIN r /\ DOMAIN r.retrieval_metrics # {}
        THEN metric \in DOMAIN r.retrieval_metrics
        ELSE metric # "recall_all_at_k"

Contributes(i, name) ==
  /\ i \in KnownResults
  /\ Carries(i, AggregateOf[name])
  /\ name = "attribution_hit_rate" => IsAnswerable(i)

NullOrAbsent(d, key) == key \notin DOMAIN d \/ d[key] = None

---------------------------------------------------------------------------
(* The claim of the loaders. *)

\* the records of the lines of a file that are JSON objects, in order
WellFormedRecords(file) ==
  LET objects == SelectSeq(file, LAMBDA l : "rec" \in DOMAIN l)
  IN  [i \in DOMAIN objects |-> objects[i].rec]

(* C22. Loading a ground-truth file or a results file with malformed lines *)
(* raises nothing and returns every well-formed record: load_results all   *)
(* of them in order, load_test_cases every one that has an id, under its   *)
(* id.                                                                     *)
LoadSkipsMalformedLines ==
  /\ outcome.op = "load_results" =>
       /\ outcome.exc = ""
       /\ outcome.ret = WellFormedRecords(results_jsonl)
  /\ outcome.op = "load_test_cases" =>
       /\ outcome.exc = ""
       /\ \A i \in DOMAIN WellFormedRecords(eval_set_jsonl) :
            "id" \in DOMAIN WellFormedRecords(eval_set_jsonl)[i] =>
               WellFormedRecords(eval_set_jsonl)[i].id \in DOMAIN outcome.ret

---------------------------------------------------------------------------
(* The claims of the judges. *)

JudgeTypes == {"groundedness", "correctness"}

JudgeFields == {"groundedness", "correctness", "judge_input", "cost"}

\* a score the judge model gave that is not in [0, 5]
BadScore(reply) == reply # None /\ (reply[1][1] < 0 \/ reply[1][1] > 5 * reply[1][2])

\* in this run a judge gave a bad score for the i-th result
BadlyScored(i) == \E t \in JudgeTypes : BadScore(pass.replies[i][t])

\* in this run the model gave both judges' scores for the i-th result, in range
WellScored(i) ==
  \A t \in JudgeTypes : pass.replies[i][t] # None /\ ~BadScore(pass.replies[i][t])

ScoresIn(result) ==
  {result[t].score : t \in {f \in JudgeTypes : f \in DOMAIN result}}

(* C23. A judge score outside [0, 5] fails its record only: once           *)
(* update_results_with_judges has written the file, a record for which a   *)
(* judge gave such a score is as it was loaded (no groundedness,           *)
(* correctness, judge_input or cost of this run), every record is written, *)
(* a record both judges scored in range carries those scores; and no score *)
(* outside [0, 5] is ever in the results file or in the cache.             *)
BadScoreFailsOneRecord ==
  /\ \A key \in DOMAIN judge_cache : ~BadScore(Some(judge_cache[key].result.score))
  /\ \A i \in DOMAIN load_results(results_jsonl) :
        \A score \in ScoresIn(load_results(results_jsonl)[i]) : ~BadScore(Some(score))
  /\ (pass.name = "judge_answers" /\ pass.pc = "done") =>
        /\ Len(load_results(results_jsonl)) = Len(pass.results)
        /\ \A i \in DOMAIN pass.results :
             /\ load_results(results_jsonl)[i].test_case_id = pass.results[i].test_case_id
             /\ BadlyScored(i) => load_results(results_jsonl)[i] = pass.results[i]
             /\ WellScored(i) =>
                  /\ JudgeFields \subseteq DOMAIN load_results(results_jsonl)[i]
                  /\ \A t \in JudgeTypes :
                       load_results(results_jsonl)[i][t].score = pass.replies[i][t][1]

\* the judge of the first result gives 6.0, both judges of the second 4.5:
\* the first is written as loaded, the second with its scores
BadScoreWitness ==
  /\ pass.name = "judge_answers"
  /\ pass.pc = "done"
  /\ Len(pass.results) = 2
  /\ pass.replies[1].groundedness = Some(Frac(6, 1))
  /\ WellScored(2)
  /\ load_results(results_jsonl)[1] = pass.results[1]
  /\ "groundedness" \notin DOMAIN load_results(results_jsonl)[1]
  /\ load_results(results_jsonl)[2].groundedness.score = Frac(9, 2)

(* C24. The judge model gives a valid score at most once for one input     *)
(* (judge type, question, answer, context, model, prompt version),         *)
(* whatever runs of judge_answers, interruptions and spot-checks there     *)
(* are.                                                                    *)
JudgedAtMostOnce ==
  \A call \in DOMAIN judge_calls : call.valid => judge_calls[call] <= 1

\* what the judge is shown of a result: question, answer and chunk texts
Shown(result) ==
  <<result.question, result.answer,
    [i \in DOMAIN result.retrieved_chunks |-> result.retrieved_chunks[i].text]>>

(* C30. Two requests to one judge that differ in question, in answer or in *)
(* the chunk text shown to the judge never have the same cache key.        *)
CacheKeyTellsInputsApart ==
  outcome.op = "compute_cache_key" =>
    \A i \in DOMAIN outcome.ret, j \in DOMAIN outcome.ret :
       Shown(load_results(results_jsonl)[i]) # Shown(load_results(results_jsonl)[j]) =>
          \A t \in JudgeTypes : outcome.ret[i][t] # outcome.ret[j][t]

---------------------------------------------------------------------------
(* The lists of find_test_changes, taken together. *)

\* a listed change whose direction is success -> failure
Regressing(c) ==
  IF c.metric = "recall_at_k" THEN c.from = One /\ c.to = Zero
  ELSE Tenths(c.from) >= 40 /\ Tenths(c.to) < 30

OncePerList(list) ==
  \A e1 \in list : \A e2 \in list : e1.test_case_id = e2.test_case_id => e1 = e2

(* C28. The regressions and the improvements find_test_changes returns    *)
(* for a pair of runs are disjoint: no test_case_id is in both lists, each *)
(* id is at most once in a list, and every change listed with a regression *)
(* is a regressing one (recall_at_k 1.0 -> 0.0, a score >= 4.0 -> < 3.0).  *)
RegressionsApartFromImprovements ==
  outcome.op = "find_test_changes" =>
    /\ ListedIn(outcome.ret.regressions) \cap ListedIn(outcome.ret.improvements) = {}
    /\ OncePerList(outcome.ret.regressions)
    /\ OncePerList(outcome.ret.improvements)
    /\ \A e \in outcome.ret.regressions : \A i \in DOMAIN e.changes : Regressing(e.changes[i])

---------------------------------------------------------------------------
(* The two recalls of one multi-hop test. *)

(* C29. Recall-all@K never exceeds Recall@K: whenever                      *)
(* compute_retrieval_metrics_for_test computes recall_all_at_k (category   *)
(* multi_hop, non-empty required_support_groups, whatever the groups       *)
(* hold), recall_all_at_k = 1.0 implies recall_at_k = 1.0.                 *)
RecallAllWithinRecall ==
  (/\ outcome.op = "compute_retrieval_metrics_for_test"
   /\ outcome.exc = ""
   /\ outcome.ret.recall_all_at_k = One)
    => outcome.ret.recall_at_k = One

---------------------------------------------------------------------------
(* storage.py: a TestResult written to results.jsonl by ResultsWriter. *)

DEFAULT_TRUNCATE_LENGTH == 200

MaxWrites == 2

\* len(self.text) >= DEFAULT_TRUNCATE_LENGTH
AsLongAsLimit(text) == Len(text) >= DEFAULT_TRUNCATE_LENGTH

\* len(self.text) > DEFAULT_TRUNCATE_LENGTH
OverLimit(text) == Len(text) > DEFAULT_TRUNCATE_LENGTH

\* the keys a dataclass always writes, and the optional ones that are not None
Written(obj, required, optional) ==
  required \cup {f \in optional : obj[f] # None}

\* RetrievedChunk.to_dict; an Optional field holds None or Some(value)
RetrievedChunk_to_dict(self, store_full_text) ==
  [key \in Written(self, {"chunk_id", "rel_path", "heading_path", "rank", "score_vector",
                          "score_final", "text"}, {"score_lexical", "token_count"}) |->
     IF key = "text"
       THEN IF store_full_text THEN self.text
            ELSE IF OverLimit(self.text)
                   THEN Slice(self.text, DEFAULT_TRUNCATE_LENGTH) \o <<".", ".", ".">>
                 ELSE self.text
     ELSE IF key \in {"score_lexical", "token_count"} THEN self[key][1]
     ELSE self[key]]

\* TestResult.to_dict
TestResult_to_dict(self, store_full_text) ==
  [key \in Written(self, {"test_case_id", "question", "answer", "references",
                          "retrieved_chunks", "config"}, {"latency"}) |->
     IF key = "retrieved_chunks"
       THEN [i \in DOMAIN self.retrieved_chunks |->
               RetrievedChunk_to_dict(self.retrieved_chunks[i], store_full_text)]
     ELSE IF key = "latency" THEN self.latency[1]
     ELSE self[key]]

\* a text of n characters that ends in c
TextOf(n, c) == [i \in 1..n |-> IF i = n THEN c ELSE "a"]

\* texts around the limit, one of them ending in the dots of a cut text
StoredTexts ==
  {TextOf(n, "a") : n \in {1, DEFAULT_TRUNCATE_LENGTH, DEFAULT_TRUNCATE_LENGTH + 1,
                           DEFAULT_TRUNCATE_LENGTH + 4}}
    \cup {TextOf(DEFAULT_TRUNCATE_LENGTH, "a") \o <<".", ".", ".">>}

StoredChunks ==
  {[chunk_id |-> "c1", rel_path |-> "a.md", heading_path |-> <<"#", " ", "a">>, rank |-> 1,
    score_vector |-> Frac(1, 2), score_final |-> Frac(1, 2), text |-> text,
    score_lexical |-> lexical, token_count |-> None] :
     text \in StoredTexts, lexical \in {None, Some(Frac(1, 4))}}

\* the TestResult objects run_eval.py builds: no chunk, one chunk, or a long
\* and a short one
StoredResults ==
  {[test_case_id |-> "t1", question |-> <<"q">>, answer |-> <<"a">>, references |-> <<>>,
    retrieved_chunks |-> chunks, config |-> [k |-> DefaultK], latency |-> latency] :
     chunks \in {<<>>} \cup {<<c>> : c \in StoredChunks}
                 \cup {<<[c EXCEPT !.token_count = Some(1)], [c EXCEPT !.text = <<"b">>]>> :
                         c \in StoredChunks},
     latency \in {None, Some([total_ms |-> 1])}}

\* ResultsWriter.write_result: one line appended to results.jsonl
write_result(file, result, store_full_text) ==
  Append(OpenForAppending(file), dumps(TestResult_to_dict(result, store_full_text)))

WriteResult ==
  /\ pc = "store"
  /\ Len(results_jsonl) < MaxWrites
  /\ \E result \in StoredResults, store_full_text \in BOOLEAN :
        /\ results_jsonl' = write_result(results_jsonl, result, store_full_text)
        /\ outcome' = [op |-> "write_result", exc |-> "",
                       ret |-> [result |-> result, store_full_text |-> store_full_text,
                                earlier |-> load_results(results_jsonl)]]
  /\ UNCHANGED <<pc, eval_set, pass, ran, original, step, metrics_json, last_written>>
  /\ UNCHANGED input_vars
  /\ UNCHANGED compare_vars
  /\ UNCHANGED tool_vars

NextStorage == WriteResult

InitStorage ==
  /\ pc = "store"
  /\ outcome = NoOutcome
  /\ IdleNormalizer
  /\ IdleMatcher
  /\ test_result = NoRecord
  /\ test_case = NoRecord
  /\ IdleRun

SpecStorage == InitStorage /\ [][NextStorage]_vars

---------------------------------------------------------------------------
(* The claim of the stored results. *)

\* the text the file must hold for a chunk text
StoredText(text, store_full_text) ==
  IF store_full_text \/ Len(text) <= 200 THEN text
  ELSE [i \in 1..203 |-> IF i <= 200 THEN text[i] ELSE "."]

\* the last record of the file is the written result with its chunk texts cut
IsStored(rec, result, store_full_text) ==
  /\ Len(rec.retrieved_chunks) = Len(result.retrieved_chunks)
  /\ \A i \in DOMAIN rec.retrieved_chunks :
        /\ rec.retrieved_chunks[i].text =
             StoredText(result.retrieved_chunks[i].text, store_full_text)
        /\ ~store_full_text => Len(rec.retrieved_chunks[i].text) <= 203
        /\ rec.retrieved_chunks[i].chunk_id = result.retrieved_chunks[i].chunk_id
  /\ rec.test_case_id = result.test_case_id
  /\ rec.answer = result.answer

(* C25. Chunk text is cut only on request: with store_full_text false a    *)
(* text of at most 200 characters is stored unchanged and a longer one as  *)
(* its first 200 characters followed by "..." (never more than 203), with  *)
(* store_full_text true every text is stored unchanged; and a write_result *)
(* call appends exactly one record that load_results returns, leaving the  *)
(* records written earlier as they were.                                   *)
TextCutOnlyOnRequest ==
  outcome.op = "write_result" =>
    /\ Len(load_results(results_jsonl)) = Len(outcome.ret.earlier) + 1
    /\ SubSeq(load_results(results_jsonl), 1, Len(outcome.ret.earlier)) = outcome.ret.earlier
    /\ IsStored(load_results(results_jsonl)[Len(results_jsonl)], outcome.ret.result,
                outcome.ret.store_full_text)

\* a second result is appended with its 201-character text cut to 203, and
\* the first record kept the 204 characters it was written with
CutAndAppendedWitness ==
  /\ outcome.op = "write_result"
  /\ ~outcome.ret.store_full_text
  /\ Len(outcome.ret.earlier) = 1
  /\ \E i \in DOMAIN outcome.ret.earlier[1].retrieved_chunks :
        Len(outcome.ret.earlier[1].retrieved_chunks[i].text) = 204
  /\ Len(outcome.ret.result.retrieved_chunks) = 2
  /\ Len(outcome.ret.result.retrieved_chunks[1].text) = 201
  /\ Len(load_results(results_jsonl)[2].retrieved_chunks[1].text) = 203
  /\ load_results(results_jsonl)[1] = outcome.ret.earlier[1]

---------------------------------------------------------------------------
(* run_full_eval.py: main, from the connectivity tests to summary.md. Each *)
(* script is a command whose exit code is all that main sees.              *)

\* args.judge_model as a condition: None and "" are false
Truthy(option) == option # None /\ option[1] # ""

\* the condition without --skip-judges
run_judges_unless_retrieval_only(a) == ~a.retrieval_only /\ Truthy(a.judge_model)

\* not args.retrieval_only and not args.skip_judges and args.judge_model
run_judges(a) == ~a.retrieval_only /\ ~a.skip_judges /\ Truthy(a.judge_model)

\* the judge is tested only when judges are to run
run_connectivity_tests(a, api_ok, judge_ok) ==
  api_ok /\ (run_judges(a) => judge_ok)

\* run_command: the script is started, and has failed unless it exits with 0
run_command(s, script, ok) ==
  [s EXCEPT !.started = Append(@, script),
            !.failed = IF ok THEN @ ELSE @ \cup {script}]

FullEvalFrame ==
  /\ UNCHANGED <<pc, outcome, args>>
  /\ UNCHANGED input_vars
  /\ UNCHANGED pipeline_vars
  /\ UNCHANGED compare_vars
  /\ UNCHANGED <<eval_set_jsonl, judge_cache, judge_calls>>

ConnectivityTests ==
  /\ session.pc = "connectivity"
  /\ \E api_ok \in BOOLEAN, judge_ok \in BOOLEAN :
        session' = [session EXCEPT
                      !.connected = run_connectivity_tests(args, api_ok, judge_ok),
                      !.pc = IF run_connectivity_tests(args, api_ok, judge_ok)
                               THEN "run_eval" ELSE "exit"]
  /\ FullEvalFrame

\* step 1; sys.exit(1) when run_eval.py fails
RunEvalCommand ==
  /\ session.pc = "run_eval"
  /\ \E ok \in BOOLEAN :
        session' = [run_command(session, "run_eval", ok) EXCEPT
                      !.pc = IF ok THEN "score_retrieval" ELSE "stopped"]
  /\ FullEvalFrame

\* steps 2 to 4: a step that is not wanted is passed over, one that fails
\* is reported and main goes on
Command(script, wanted, next) ==
  /\ session.pc = script
  /\ \/ /\ ~wanted
        /\ session' = [session EXCEPT !.pc = next]
     \/ /\ wanted
        /\ \E ok \in BOOLEAN :
              session' = [run_command(session, script, ok) EXCEPT !.pc = next]
  /\ FullEvalFrame

ScoreRetrievalCommand ==
  Command("score_retrieval", ~args.skip_retrieval_metrics, "judge_answers")

JudgeAnswersCommand == Command("judge_answers", run_judges(args), "score_abstention")

ScoreAbstentionCommand ==
  Command("score_abstention", ~args.skip_abstention_metrics, "summary")

\* create_summary_md
CreateSummary ==
  /\ session.pc = "summary"
  /\ session' = [session EXCEPT !.started = Append(@, "summary"), !.pc = "complete"]
  /\ FullEvalFrame

NextFullEval ==
  \/ ConnectivityTests
  \/ RunEvalCommand
  \/ ScoreRetrievalCommand
  \/ JudgeAnswersCommand
  \/ ScoreAbstentionCommand
  \/ CreateSummary

InitFullEval ==
  /\ pc = "run_full_eval"
  /\ args \in [command : {"run_full_eval"},
               retrieval_only : BOOLEAN,
               skip_judges : BOOLEAN,
               judge_model : {None, Some(""), Some(JudgeModel)},
               skip_retrieval_metrics : BOOLEAN,
               skip_abstention_metrics : BOOLEAN]
  /\ session = [pc |-> "connectivity", connected |-> FALSE, started |-> <<>>, failed |-> {}]
  /\ eval_set_jsonl = <<>>
  /\ judge_cache = <<>>
  /\ judge_calls = <<>>
  /\ IdleCompare
  /\ outcome = NoOutcome
  /\ IdleNormalizer
  /\ IdleMatcher
  /\ test_result = NoRecord
  /\ test_case = NoRecord
  /\ results_jsonl = <<>>
  /\ eval_set = <<>>
  /\ pass = NoPass
  /\ ran = {}
  /\ original = <<>>
  /\ step = ""
  /\ metrics_json = None
  /\ last_written = ""

SpecFullEval == InitFullEval /\ [][NextFullEval]_vars

---------------------------------------------------------------------------
(* The claim of the full pipeline. *)

StepOrder == <<"run_eval", "score_retrieval", "judge_answers", "score_abstention", "summary">>

PlaceOf(script) == CHOOSE i \in DOMAIN StepOrder : StepOrder[i] = script

Started == {session.started[i] : i \in DOMAIN session.started}

\* the positions of main after the point where the script is started
Past(script) ==
  {StepOrder[i] : i \in (PlaceOf(script) + 1)..Len(StepOrder)} \cup {"complete"}

(* C26. run_full_eval starts its steps strictly in the order run_eval,     *)
(* score_retrieval, judge_answers, score_abstention, summary; no step      *)
(* starts unless the connectivity tests passed; when run_eval fails no     *)
(* later step runs and no summary is written; a failure of one of the      *)
(* three scoring steps stops nothing: main passes every later step and     *)
(* writes the summary; and judge_answers is started iff not retrieval_only, *)
(* not skip_judges and a judge model is given.                             *)
StepsInOrder ==
  args.command = "run_full_eval" =>
    /\ \A i \in DOMAIN session.started : \A j \in DOMAIN session.started :
          i < j => PlaceOf(session.started[i]) < PlaceOf(session.started[j])
    /\ Started # {} => session.connected
    /\ "run_eval" \in session.failed => session.started = <<"run_eval">> /\ session.pc = "stopped"
    /\ session.pc = "stopped" => session.failed = {"run_eval"}
    /\ session.pc = "exit" => ~session.connected /\ Started = {}
    /\ session.pc \in Past("score_retrieval") =>
          ("score_retrieval" \in Started <=> ~args.skip_retrieval_metrics)
    /\ session.pc \in Past("judge_answers") =>
          ("judge_answers" \in Started <=>
             (/\ ~args.retrieval_only
              /\ ~args.skip_judges
              /\ args.judge_model \notin {None, Some("")}))
    /\ session.pc \in Past("score_abstention") =>
          ("score_abstention" \in Started <=> ~args.skip_abstention_metrics)
    /\ session.pc = "complete" => "summary" \in Started
    /\ "judge_answers" \in Started =>
          (~args.retrieval_only /\ ~args.skip_judges /\ args.judge_model = Some(JudgeModel))

\* the three scoring steps all failed and the summary was written
AllScoringFailedWitness ==
  /\ args.command = "run_full_eval"
  /\ session.pc = "complete"
  /\ session.failed = {"score_retrieval", "judge_answers", "score_abstention"}
  /\ session.started = StepOrder

---------------------------------------------------------------------------
(* label_eval.py: a labeling session on eval_set.jsonl. The user's answers *)
(* and the API's response for one test case are the inputs of one step.    *)

\* load_eval_set: the lines that parse, in order; the others are skipped
\* with a warning
load_eval_set(file) ==
  LET parsed == SelectSeq(file, LAMBDA l : ~l.blank /\ loads(l).exc = "")
  IN  [i \in DOMAIN parsed |-> loads(parsed[i]).ret]

\* save_eval_set: the file is rewritten with one line per test case
save_eval_set(test_cases) == [i \in DOMAIN test_cases |-> dumps(test_cases[i])]

\* test_cases = [tc for tc in test_cases if tc.get("id") == args.test_id]
filtered(test_cases, test_id) ==
  SelectSeq(test_cases, LAMBDA tc : "id" \in DOMAIN tc /\ tc.id = test_id)

\* create_gold_supports for chunks with an empty heading path and no text:
\* one support per file, in the order of the selected chunks
create_gold_supports(chunks, selected_indices) ==
  LET picked == SelectSeq([i \in DOMAIN chunks |-> [idx |-> i, rel_path |-> chunks[i].rel_path]],
                          LAMBDA c : /\ c.idx \in selected_indices
                                     /\ \A j \in selected_indices :
                                           j < c.idx => chunks[j].rel_path # c.rel_path)
  IN  [i \in DOMAIN picked |-> [rel_path |-> picked[i].rel_path, heading_path |-> <<>>]]

\* test_case[key] = value, twice
labelled(tc, answerable, gold_supports) ==
  [key \in DOMAIN tc \cup {"answerable", "gold_supports"} |->
     IF key = "answerable" THEN answerable
     ELSE IF key = "gold_supports" THEN gold_supports
     ELSE tc[key]]

\* label_test_case: None when the user quits, else the test case
label_test_case(tc, skip_if_labeled, user) ==
  IF skip_if_labeled /\ Get(tc, "gold_supports", <<>>) # <<>> /\ ~user.relabel
    THEN Some(tc)
  ELSE IF user.api = "failed" /\ ~user.continue THEN None
  ELSE IF user.api = "failed" \/ user.chunks = <<>>
    THEN IF user.unanswerable THEN Some(labelled(tc, FALSE, <<>>))
         ELSE Some([key \in DOMAIN tc \cup {"gold_supports"} |->
                      IF key = "gold_supports" THEN <<>> ELSE tc[key]])
  ELSE IF user.selected = None THEN None
  ELSE IF user.selected[1] # {}
    THEN Some(labelled(tc, TRUE, create_gold_supports(user.chunks, user.selected[1])))
  ELSE Some(labelled(tc, user.unanswerable, <<>>))

\* what the API returns and what the user answers for one test case
ApiChunks == {<<>>, <<[rel_path |-> "a.md"], [rel_path |-> "a.md"]>>}

Users ==
  [relabel : BOOLEAN, api : {"failed", "ok"}, continue : BOOLEAN, chunks : ApiChunks,
   selected : {None, Some({}), Some({1, 2})}, unanswerable : BOOLEAN]

LabelFrame ==
  /\ UNCHANGED <<pc, outcome, args>>
  /\ UNCHANGED input_vars
  /\ UNCHANGED pipeline_vars
  /\ UNCHANGED compare_vars
  /\ UNCHANGED <<judge_cache, judge_calls>>

\* main up to the loop: the file is loaded and, with --test-id, filtered
LoadEvalSet ==
  /\ session.pc = "load"
  /\ LET test_cases == IF args.test_id = None THEN load_eval_set(eval_set_jsonl)
                       ELSE filtered(load_eval_set(eval_set_jsonl), args.test_id[1])
     IN  session' = [session EXCEPT
                       !.pc = IF args.test_id # None /\ test_cases = <<>> THEN "exit"
                              ELSE "label",
                       !.test_cases = test_cases]
  /\ UNCHANGED eval_set_jsonl
  /\ LabelFrame

\* one round of the loop
LabelTestCase ==
  /\ session.pc = "label"
  /\ session.i <= Len(session.test_cases)
  /\ \E user \in Users :
        LET updated == label_test_case(session.test_cases[session.i], args.skip_labeled, user)
        IN  session' =
              IF updated = None
                THEN [session EXCEPT
                        !.updated_test_cases =
                           @ \o SubSeq(session.test_cases, session.i, Len(session.test_cases)),
                        !.i = Len(session.test_cases) + 1,
                        !.quit = TRUE]
              ELSE [session EXCEPT !.updated_test_cases = Append(@, updated[1]),
                                   !.relabelled = @ \/ updated[1] # session.test_cases[session.i],
                                   !.i = @ + 1]
  /\ UNCHANGED eval_set_jsonl
  /\ LabelFrame

\* after the loop: save_eval_set unless there is nothing to save
SaveEvalSet ==
  /\ session.pc = "label"
  /\ session.i > Len(session.test_cases)
  /\ eval_set_jsonl' = IF session.updated_test_cases # <<>>
                         THEN save_eval_set(session.updated_test_cases)
                       ELSE eval_set_jsonl
  /\ session' = [session EXCEPT !.pc = IF session.updated_test_cases # <<>> THEN "saved"
                                       ELSE "nothing to save"]
  /\ LabelFrame

NextLabel ==
  \/ LoadEvalSet
  \/ LabelTestCase
  \/ SaveEvalSet

\* the lines of a ground-truth file: blank, cut short, labelled and
\* unlabelled test cases
LabelLines ==
  {BlankLine, MalformedLine,
   Line([id |-> "t1", question |-> "q1", gold_supports |-> <<GoldA>>], TRUE),
   Line([id |-> "t2", question |-> "q2"], TRUE),
   Line([id |-> "t3", question |-> "q3", answerable |-> FALSE, gold_supports |-> <<>>], TRUE)}

InitLabel ==
  /\ pc = "label_eval"
  /\ eval_set_jsonl \in SeqsUpTo(LabelLines, MaxResults)
  /\ args \in [command : {"label_eval"},
               test_id : {None, Some("t1"), Some("t9")},
               skip_labeled : BOOLEAN]
  /\ session = [pc |-> "load", before |-> eval_set_jsonl, test_cases |-> <<>>,
                updated_test_cases |-> <<>>, i |-> 1, quit |-> FALSE, relabelled |-> FALSE]
  /\ judge_cache = <<>>
  /\ judge_calls = <<>>
  /\ IdleCompare
  /\ outcome = NoOutcome
  /\ IdleNormalizer
  /\ IdleMatcher
  /\ test_result = NoRecord
  /\ test_case = NoRecord
  /\ results_jsonl = <<>>
  /\ eval_set = <<>>
  /\ pass = NoPass
  /\ ran = {}
  /\ original = <<>>
  /\ step = ""
  /\ metrics_json = None
  /\ last_written = ""

SpecLabel == InitLabel /\ [][NextLabel]_vars

---------------------------------------------------------------------------
(* The claim of the labeling session. *)

\* the ids of the test cases a ground-truth file holds
IdsIn(file) ==
  {file[i].rec.id : i \in {j \in DOMAIN file : "rec" \in DOMAIN file[j] /\ "id" \in DOMAIN file[j].rec}}

(* C27. A labeling session never removes a test case: once label_eval's    *)
(* main has saved the eval set, every test case that was in the file       *)
(* before the session is still in it, relabelled or unchanged, also when   *)
(* --test-id restricts the session to one test case and when the user      *)
(* quits or skips midway.                                                  *)
SessionKeepsTestCases ==
  (args.command = "label_eval" /\ session.pc = "saved")
    => IdsIn(session.before) \subseteq IdsIn(eval_set_jsonl)

=============================================================================
